---- MODULE Spec2Model ----
(***************************************************************************)
(* A model of the control-plane state migrator of phisco/up:               *)
(*   - the importer (src/pkg/migration/crossplane/info.go, package         *)
(*     importer): PreflightChecks, Import, unarchive, waitForConditions;   *)
(*   - the exporter (src/pkg/migration/exporter/export.go): Export and     *)
(*     archive.                                                            *)
(* Spec is the import run (a caller that may run PreflightChecks and then  *)
(* Import, up to MaxRuns times, against one target control plane).         *)
(***************************************************************************)
EXTENDS Integers, Sequences, FiniteSets, TLC

\* ------------------------------------------------------------------ bounds

\* The most instances a list call of a readiness poll returns.
MaxInstances == 2
\* The number of import runs a caller performs against the same target.
MaxRuns == 2
\* The most feature flags of a manifest or of a target control plane.
MaxFlags == 2
\* The most owner references of a CustomResourceDefinition or of an object.
MaxOwners == 2
\* The most pages the server returns for a type, and the most items of a page.
MaxPages == 2
MaxPageLen == 2
MaxVersions == 2

\* ------------------------------------------------------- program constants

TimeoutSeconds_long == 15 * 60

\* waitForConditions: timeout := 10 * time.Minute, in seconds.
TimeoutSeconds == 600
\* waitForConditions: wait.UntilWithContext(..., 5*time.Second), in seconds.
PeriodSeconds == 5

\* var baseResources: the types imported first, in this order.
baseResources ==
    << "namespaces",
       "configmaps",
       "secrets",
       "controllerconfigs.pkg.crossplane.io",
       "deploymentruntimeconfigs.pkg.crossplane.io",
       "storeconfigs.secrets.crossplane.io",
       "compositionrevisions.apiextensions.crossplane.io",
       "compositions.apiextensions.crossplane.io",
       "compositeresourcedefinitions.apiextensions.crossplane.io",
       "providers.pkg.crossplane.io",
       "functions.pkg.crossplane.io",
       "configurations.pkg.crossplane.io" >>

\* func isBaseResource(gr string) bool
isBaseResource(gr) == \E k \in 1..Len(baseResources) : baseResources[k] = gr

\* func contains(ss []string, s string) bool
contains(ss, s) == \E v \in 1..Len(ss) : ss[v] = s

\* strings.HasPrefix(s, prefix), on strings cut into segments at the end of
\* the prefixes the program tests.
HasPrefix(str, prefix) ==
    /\ Len(str) >= Len(prefix)
    /\ SubSeq(str, 1, Len(prefix)) = prefix

\* ------------------------------------------------------------ helper sets

Range(s) == {s[k] : k \in 1..Len(s)}

\* The condition types of xpv1.ConditionedStatus the importer asks for.
CondTypes == {"Established", "Installed", "Healthy"}
\* corev1.ConditionStatus; "Unknown" is also what GetCondition returns for a
\* condition (or a whole status) that is absent.
Status == {"True", "False", "Unknown"}

\* The group kinds Import waits for.
Kinds ==
    {"CompositeResourceDefinition", "Provider", "Function", "Configuration",
     "ProviderRevision", "FunctionRevision", "ConfigurationRevision"}

\* The conditions the control plane reports on instances of a kind: the
\* others are absent from status (GetCondition gives Unknown).
ReportedConds(gk) ==
    CASE gk = "CompositeResourceDefinition" -> {"Established"}
      [] gk \in {"Provider", "Function", "Configuration"} -> {"Installed", "Healthy"}
      [] OTHER -> {"Healthy"}

\* An instance as a readiness poll sees it: the status of each condition.
Instances(gk) ==
    {inst \in [CondTypes -> Status] :
        \A c \in CondTypes \ ReportedConds(gk) : inst[c] = "Unknown"}

\* What a list call of the dynamic client can return for a kind.
Lists(gk) == UNION {[1..n -> Instances(gk)] : n \in 0..MaxInstances}

\* ------------------------------------------------- the archive (importer)

\* An entry of a directory listing (os.FileInfo: Name, IsDir).
Dir(n) == [name |-> n, isDir |-> TRUE]
File(n) == [name |-> n, isDir |-> FALSE]

Composites == "xnetworks.example.org"
Claims == "networks.example.org"
Managed == "buckets.s3.aws.upbound.io"

\* The objects of the model: those with a 1 are in the archive, those with a
\* 0 exist on the target only.
Objects == {"ns1", "xr1", "xr0", "claim1", "mr1", "mr0"}
ArchivedObjects == {"ns1", "xr1", "claim1", "mr1"}

TypeOf(o) ==
    CASE o = "ns1" -> "namespaces"
      [] o \in {"xr1", "xr0"} -> Composites
      [] o = "claim1" -> Claims
      [] OTHER -> Managed

\* TypeDescriptor.categories of a type, which is also what live discovery
\* reports for it.
CategoriesOf(gr) ==
    CASE gr = Composites -> {"composite"}
      [] gr = Claims -> {"claim"}
      [] gr = Managed -> {"managed"}
      [] OTHER -> {}

\* ExportMeta.Crossplane of export.yaml and CrossplaneInfo of the target.
Info(v, ff) == [version |-> v, flags |-> ff]

\* Root listings of input archives, in directory-listing order (by name).
RootFull ==
    << Dir(Managed), File("export.yaml"), Dir("namespaces"), Dir(Claims),
       Dir(Composites) >>
RootStray ==
    << Dir(Managed), File("export.yaml"), Dir("namespaces"), Dir(Claims),
       File("notes.txt"), Dir(Composites) >>

\* The states of an object on the target: pause annotation set or not.
ObjStates == {"absent", "paused", "unpaused"}

\* ------------------------------------------------------------------ state

VARIABLES
    options,        \* Options of the importer: UnpauseAfterImport
    inputArchive,   \* the archive at Options.InputArchive: root, meta, metaValid
    liveInfo,       \* what CollectInfo reads from the target
    fs,             \* im.fs: allocated (non-nil), complete, root
    unarchives,     \* calls of unarchive on this importer
    pf,             \* whether PreflightChecks was called on this importer
    proceeded,      \* on what the caller called Import: "nopreflight",
                    \* "clean" (no error of PreflightChecks) or "errors"
    pfErrs,         \* the errors of the last PreflightChecks
    pc,             \* position of the caller / of Import
    idx,            \* index of the loop Import is in
    clock,          \* seconds since the context of waitForConditions was made
    cancelled,      \* the caller's context is cancelled
    cancelledAt,    \* pc when it was cancelled
    target,         \* the objects of the target control plane
    afterFirst,     \* target when the first run returned
    log,            \* the steps of Import in this run
    run,            \* number of the run
    mapperResets,   \* calls of resourceMapper.Reset in this run
    unpausedByRun,  \* objects whose pause annotation this run removed
    failure         \* why Import returned an error

VARIABLES
    wpc,            \* position of waitForConditions, taken step by step
    wi,             \* the wait Import is at: an index of Waits
    wclock,         \* seconds since the context of this wait was made
    spent,          \* seconds the earlier waits of the same barrier took,
                    \* counted up to one period
    resourceList,   \* what the last list call of the poll returned
    wsuccess,       \* success of waitForConditions
    wfailure        \* why waitForConditions returned an error

waitVars == << wpc, wi, wclock, spent, resourceList, wsuccess, wfailure >>

VARIABLES
    cpc,            \* position of CollectInfo
    deployments,    \* the Deployments the apps client lists, in order
    xp              \* what CollectInfo returned: err, info

collectVars == << cpc, deployments, xp >>

importOnly ==
    << options, inputArchive, liveInfo, fs, unarchives, pf, proceeded, pfErrs,
       pc, idx,
       clock, cancelled, cancelledAt, target, afterFirst, log, run,
       mapperResets, unpausedByRun, failure >>

importVars == << importOnly, waitVars, collectVars >>

VARIABLES
    eopts,          \* Options of the exporter
    crds,           \* the CustomResourceDefinitions of the source, as listed
    epc,            \* position of Export
    eidx,           \* index of the loop Export is in
    exportList,     \* the CRDs Export selected
    pending,        \* the native resources still to export
    tmp,            \* the temporary directory: "none", "present", "removed"
    tree,           \* the files Export wrote below the temporary directory
    walk,           \* the paths filepath.Walk visits, in its order
    outFile,        \* the file at Options.OutputArchive: exists, entries
    ecancelled,     \* the caller's context of Export is cancelled
    sourcePaused,   \* the managed resources of the source Export paused:
                    \* "none", "some" or "all"
    crCounts,       \* crCounts of Export
    nativeCounts,   \* nativeCounts of Export
    elog,           \* the steps of Export so far
    config          \* the configuration surface the caller built eopts from

VARIABLES
    fpc,            \* position of FetchResources
    listing,        \* the pages the server returns for the type, in order
    continueToken,  \* continueToken of FetchResources: << >> is ""
    resources,      \* resources of FetchResources
    requests        \* the Continue of every List call so far, in order

fetchVars == << fpc, listing, continueToken, resources, requests >>

exportOnly ==
    << eopts, crds, epc, eidx, exportList, pending, tmp, tree, walk, outFile,
       ecancelled, sourcePaused, crCounts, nativeCounts, elog, config >>

VARIABLES
    gpc,            \* position of customResourceGVR
    crdIn,          \* its argument: group, kind, plural and spec.versions
    mapped,         \* the versions of the kind the REST mapper knows
    gvrOut          \* what it returned: err, the version asked for, the gvr

gvrVars == << gpc, crdIn, mapped, gvrOut >>

exportVars == << exportOnly, fetchVars, gvrVars >>

vars == << importVars, exportVars >>

NoFs == [allocated |-> FALSE, complete |-> FALSE, root |-> <<>>]

\* A step of Import in the log: met says whether the poll that ended a wait
\* saw every instance with every condition the kind must have.
Ev(op, arg, ok, met) == [op |-> op, arg |-> arg, ok |-> ok, met |-> met]

\* ------------------------------------------------------------- unarchive

\* func (im *ControlPlaneStateImporter) unarchive: the filesystems it can
\* leave behind. It extracts entry by entry, so an error (the archive cannot
\* be opened, decompressed or read, a file cannot be created) leaves the
\* entries extracted so far.
unarchive(archive) ==
    {[err |-> FALSE,
      fs |-> [allocated |-> TRUE, complete |-> TRUE, root |-> archive.root]]}
    \cup
    {[err |-> TRUE,
      fs |-> [allocated |-> TRUE, complete |-> FALSE,
              root |-> SubSeq(archive.root, 1, k)]] :
        k \in 0..Len(archive.root)}

\* ------------------------------------------------------- PreflightChecks

PfErr(kind, flag) == [kind |-> kind, flag |-> flag]

\* The flags of the manifest that are not set on the target, in the order of
\* the manifest (the loop over em.Crossplane.FeatureFlags).
MissingFlags_first(observed, em) ==
    LET missing == SelectSeq(em.flags, LAMBDA ff : ~contains(observed.flags, ff))
    IN  IF missing = << >> THEN << >> ELSE << Head(missing) >>

MissingFlags(observed, em) ==
    SelectSeq(em.flags, LAMBDA ff : ~contains(observed.flags, ff))

\* PreflightChecks from `var errs []error` on: the version check and the
\* feature flag loop.
CompareInfo(observed, em) ==
    LET versionErrs ==
            IF observed.version # em.version
            THEN << PfErr("version", "") >> ELSE << >>
        missing == MissingFlags(observed, em)
    IN  versionErrs \o [k \in 1..Len(missing) |-> PfErr("flag", missing[k])]

\* im.fs.ReadFile("export.yaml") succeeds on a filesystem that holds it.
HasManifest(f) == \E k \in 1..Len(f.root) : f.root[k] = File("export.yaml")

\* func (im *ControlPlaneStateImporter) PreflightChecks(ctx) []error, on
\* a target where CollectInfo fails or reads one of `infos`. The caller runs
\* it at most once, before the first Import.
PreflightChecks(infos) ==
    /\ pc = "idle"
    /\ ~pf /\ run = 1
    /\ pf' = TRUE
    /\ \/ \* CollectInfo fails
          /\ pfErrs' = << PfErr("info", "") >>
          /\ UNCHANGED << liveInfo, fs, unarchives >>
       \/ \E observed \in infos :
          \E u \in (IF fs.allocated THEN {[err |-> FALSE, fs |-> fs]}
                    ELSE unarchive(inputArchive)) :
            /\ liveInfo' = observed
            /\ fs' = u.fs
            /\ unarchives' = IF fs.allocated THEN unarchives ELSE unarchives + 1
            /\ pfErrs' =
                 IF u.err THEN << PfErr("unarchive", "") >>
                 ELSE IF ~HasManifest(u.fs) THEN << PfErr("read", "") >>
                 ELSE IF ~inputArchive.metaValid THEN << PfErr("unmarshal", "") >>
                 ELSE CompareInfo(observed, inputArchive.meta)
    /\ UNCHANGED << options, inputArchive, proceeded, pc, idx, clock, cancelled,
                    cancelledAt, target, afterFirst, log, run, mapperResets,
                    unpausedByRun, failure, exportVars, waitVars, collectVars >>

\* --------------------------------------------------- the resource importer

\* What a call that applies or modifies `all` can have done when it returns
\* an error: some but not all of it, and nothing when its context was
\* already done when it was called.
Partial(all, ctxDone) ==
    {S \in SUBSET all : (S # all \/ all = {}) /\ (ctxDone => S = {})}

\* FileSystemReader: the archived objects of a type; none when the type has
\* no directory.
ArchivedOf(f, gr) ==
    IF \E k \in 1..Len(f.root) : f.root[k] = Dir(gr)
    THEN {o \in ArchivedObjects : TypeOf(o) = gr}
    ELSE {}

\* PausingResourceImporter: claims, composites and managed resources are
\* imported with crossplane.io/paused set to true.
ImportedState(gr) ==
    IF CategoriesOf(gr) \cap {"managed", "claim", "composite"} # {}
    THEN "paused" ELSE "unpaused"

\* PausingResourceImporter.ImportResources(ctx, gr, restoreStatus): the
\* outcomes of applying every archived object of gr to the target. A call
\* with objects to apply fails when ctx is done.
ImportResources(tgt, f, gr, ctxDone) ==
    LET objs == ArchivedOf(f, gr)
        applied(S) ==
            [o \in Objects |-> IF o \in S THEN ImportedState(gr) ELSE tgt[o]]
    IN  {[err |-> FALSE, target |-> applied(objs)] :
            x \in IF ~ctxDone \/ objs = {} THEN {0} ELSE {}}
        \cup
        {[err |-> TRUE, target |-> applied(S)] : S \in Partial(objs, ctxDone)}

\* The objects on the target of a type that advertises the category.
Live(tgt, category) ==
    {o \in Objects : tgt[o] # "absent" /\ category \in CategoriesOf(TypeOf(o))}

\* category.APICategoryModifier.ModifyResources(ctx, category, mutator): the
\* outcomes of mutating and writing back every live object of the category.
ModifyResources(tgt, category, mutator, ctxDone) ==
    LET all == Live(tgt, category)
        modified(S) ==
            [o \in Objects |-> IF o \in S THEN mutator[tgt[o]] ELSE tgt[o]]
    IN  {[err |-> FALSE, target |-> modified(all)] :
            x \in IF ~ctxDone \/ all = {} THEN {0} ELSE {}}
        \cup
        {[err |-> TRUE, target |-> modified(S)] : S \in Partial(all, ctxDone)}

\* The mutator Import hands to ModifyResources:
\* xpmeta.RemoveAnnotations(u, "crossplane.io/paused").
RemovePaused == [st \in ObjStates |-> IF st = "paused" THEN "unpaused" ELSE st]

\* ----------------------------------------------------- waitForConditions

\* The calls of waitForConditions Import makes, in order.
XRDConditions == << "Established" >>
PackageConditions_installed == << "Installed" >>
PackageConditions == << "Installed", "Healthy" >>
RevisionConditions == << "Healthy" >>

Waits ==
    << [gk |-> "CompositeResourceDefinition", conditions |-> XRDConditions],
       [gk |-> "Provider", conditions |-> PackageConditions],
       [gk |-> "Function", conditions |-> PackageConditions],
       [gk |-> "Configuration", conditions |-> PackageConditions],
       [gk |-> "ProviderRevision", conditions |-> RevisionConditions],
       [gk |-> "FunctionRevision", conditions |-> RevisionConditions],
       [gk |-> "ConfigurationRevision", conditions |-> RevisionConditions] >>

UnmetOne_first(inst, conditions) == inst[conditions[1]] # "True"

\* The inner loop of the poll: an instance is unmet when one of the
\* conditions is not True (break: it is counted once).
UnmetOne(inst, conditions) ==
    \E c \in 1..Len(conditions) : inst[conditions[c]] # "True"

Unmet_orEmpty(items, conditions) ==
    IF items = << >> THEN 1
    ELSE Cardinality({k \in 1..Len(items) : UnmetOne(items[k], conditions)})

\* The poll's count over resourceList.Items.
Unmet(items, conditions) ==
    Cardinality({k \in 1..Len(items) : UnmetOne(items[k], conditions)})

PollSucceeds_always(unmet) == ~(unmet < 0)

\* if unmet > 0 { return }; success = true
PollSucceeds(unmet) == ~(unmet > 0)

\* What one poll makes of the items the list call returned: success, and
\* (for the record) whether every item had every condition of its kind.
PollOutcome(items, w) ==
    [success |-> PollSucceeds(Unmet(items, Waits[w].conditions)),
     met |-> \A k \in 1..Len(items) :
                \A c \in ReportedConds(Waits[w].gk) : items[k][c] = "True"]

\* The outcomes of a poll of each wait, over all the lists the list call can
\* return.
PollOutcomes ==
    [w \in 1..Len(Waits) |-> {PollOutcome(items, w) : items \in Lists(Waits[w].gk)}]

WaitReturn_nil(success) == "nil"

\* if !success { return errors.Errorf("timeout ...") }; return nil
WaitReturn(success) == IF ~success THEN "error" ELSE "nil"

\* ------------------------------------------------------------------ Import

FinalCategories_swapped == << "claim", "composite" >>

\* The categories Import always unpauses, in order.
FinalCategories == << "composite", "claim" >>

UnpauseManaged_always == TRUE

\* if im.options.UnpauseAfterImport { ... "managed" ... }
UnpauseManaged == options.UnpauseAfterImport

UnpauseSteps ==
    FinalCategories \o (IF UnpauseManaged THEN << "managed" >> ELSE << >>)

ModifyCtxDone_background == FALSE

\* The context Import hands to ModifyResources is the caller's.
ModifyCtxDone == cancelled

Running == {"base", "waitStart", "wait", "reset", "remainder", "unpause"}

\* What no step of Import changes.
runFrame ==
    << options, inputArchive, liveInfo, pf, proceeded, pfErrs, afterFirst, run,
       exportVars, waitVars, collectVars >>

Fail_goOn(why, ev) ==
    /\ pc' = pc
    /\ failure' = why
    /\ log' = Append(log, ev)

\* Import returns an error.
Fail(why, ev) ==
    /\ pc' = "failed"
    /\ failure' = why
    /\ log' = Append(log, ev)

NoInfo == Info("", << >>)

\* The caller calls Import, whatever PreflightChecks returned (its errors
\* are the caller's to judge, and are dropped here).
\* Import: `if im.fs == nil { ...unarchive... }`
ImportStart ==
    /\ pc = "idle"
    /\ proceeded' = IF ~pf THEN "nopreflight"
                    ELSE IF pfErrs = << >> THEN "clean" ELSE "errors"
    /\ pfErrs' = << >>
    /\ liveInfo' = NoInfo
    /\ \E u \in (IF fs.allocated THEN {[err |-> FALSE, fs |-> fs]}
                 ELSE unarchive(inputArchive)) :
        /\ fs' = u.fs
        /\ unarchives' = IF fs.allocated THEN unarchives ELSE unarchives + 1
        /\ IF u.err
           THEN pc' = "failed" /\ failure' = "unarchive"
           ELSE pc' = "base" /\ failure' = failure
    /\ idx' = 1
    /\ UNCHANGED << options, inputArchive, pf, afterFirst, run, clock,
                    cancelled, cancelledAt, target, log, mapperResets,
                    unpausedByRun, exportVars, waitVars, collectVars >>

\* Import: one iteration of `for _, gr := range baseResources`.
ImportBase ==
    /\ pc = "base"
    /\ \E r \in ImportResources(target, fs, baseResources[idx], cancelled) :
        /\ target' = r.target
        /\ IF r.err
           THEN /\ Fail("apply", Ev("base", baseResources[idx], FALSE, TRUE))
                /\ idx' = idx
           ELSE /\ log' = Append(log, Ev("base", baseResources[idx], TRUE, TRUE))
                /\ failure' = failure
                /\ IF idx < Len(baseResources)
                   THEN pc' = pc /\ idx' = idx + 1
                   ELSE pc' = "waitStart" /\ idx' = 1
    /\ UNCHANGED << runFrame, fs, unarchives, clock, cancelled, cancelledAt,
                    mapperResets, unpausedByRun >>

\* waitForConditions up to the first poll: the REST mapping, the context
\* with the timeout.
WaitBegin ==
    /\ pc = "waitStart"
    /\ \/ /\ Fail("mapping", Ev("mapping", Waits[idx].gk, FALSE, FALSE))
          /\ clock' = clock
       \/ /\ pc' = "wait"
          /\ clock' = 0
          /\ UNCHANGED << failure, log >>
    /\ UNCHANGED << runFrame, fs, unarchives, idx, cancelled, cancelledAt,
                    target, mapperResets, unpausedByRun >>

\* waitForConditions returns (the clock of its context is of no use any
\* more): nil takes Import to the next wait or to the
\* mapper reset, an error makes Import return it.
WaitEnd(success, ev, why) ==
    IF WaitReturn(success) = "nil"
    THEN /\ log' = Append(log, ev)
         /\ failure' = failure
         /\ clock' = 0
         /\ IF idx < Len(Waits)
            THEN pc' = "waitStart" /\ idx' = idx + 1
            ELSE pc' = "reset" /\ idx' = 1
    ELSE Fail(why, ev) /\ idx' = idx /\ clock' = 0

\* One run of the function wait.UntilWithContext calls, with a list call
\* that returns items, and the sleep of the period after it.
Poll ==
    /\ pc = "wait"
    /\ ~cancelled /\ clock < TimeoutSeconds
    /\ \E o \in PollOutcomes[idx] :
        IF o.success
        THEN /\ WaitEnd(TRUE, Ev("wait", Waits[idx].gk, TRUE, o.met), "")
        ELSE /\ clock' = clock + PeriodSeconds
             /\ UNCHANGED << pc, idx, log, failure >>
    /\ UNCHANGED << runFrame, fs, unarchives, cancelled, cancelledAt, target,
                    mapperResets, unpausedByRun >>

\* The same with a list call (or the read of a status) that fails: logged,
\* and retried after the period.
PollError ==
    /\ pc = "wait"
    /\ ~cancelled /\ clock < TimeoutSeconds
    /\ clock' = clock + PeriodSeconds
    /\ UNCHANGED << runFrame, fs, unarchives, pc, idx, cancelled, cancelledAt,
                    target, log, mapperResets, unpausedByRun, failure >>

\* The context of the wait is done (the timeout, or the caller's
\* cancellation) with success still false.
WaitExpire ==
    /\ pc = "wait"
    /\ cancelled \/ clock >= TimeoutSeconds
    /\ LET why == IF clock >= TimeoutSeconds THEN "deadline" ELSE "ctxdone"
       IN  WaitEnd(FALSE, Ev(why, Waits[idx].gk, FALSE, FALSE), why)
    /\ UNCHANGED << runFrame, fs, unarchives, cancelled, cancelledAt, target,
                    mapperResets, unpausedByRun >>

\* After the last step of the remainder tier: the unpause steps, if any.
ToUnpause == pc' = "unpause" /\ idx' = 1

ResetMapper_noReset ==
    /\ pc = "reset"
    /\ mapperResets' = mapperResets
    /\ \/ /\ Fail("readdir", Ev("reset", "", TRUE, TRUE))
          /\ idx' = idx
       \/ /\ log' = Append(log, Ev("reset", "", TRUE, TRUE))
          /\ failure' = failure
          /\ IF Len(fs.root) > 0
             THEN pc' = "remainder" /\ idx' = 1
             ELSE ToUnpause
    /\ UNCHANGED << runFrame, fs, unarchives, clock, cancelled, cancelledAt,
                    target, unpausedByRun >>

\* Import: im.resourceMapper.Reset() and im.fs.ReadDir("/").
ResetMapper ==
    /\ pc = "reset"
    /\ mapperResets' = mapperResets + 1
    /\ \/ /\ Fail("readdir", Ev("reset", "", TRUE, TRUE))
          /\ idx' = idx
       \/ /\ log' = Append(log, Ev("reset", "", TRUE, TRUE))
          /\ failure' = failure
          /\ IF Len(fs.root) > 0
             THEN pc' = "remainder" /\ idx' = 1
             ELSE ToUnpause
    /\ UNCHANGED << runFrame, fs, unarchives, clock, cancelled, cancelledAt,
                    target, unpausedByRun >>

\* Import: one iteration of `for _, info := range grs`.
ImportRemaining ==
    /\ pc = "remainder"
    /\ LET info == fs.root[idx]
           next == IF idx < Len(fs.root)
                   THEN pc' = pc /\ idx' = idx + 1
                   ELSE ToUnpause
       IN  IF info.name = "export.yaml"
           THEN next /\ UNCHANGED << target, log, failure >>
           ELSE IF ~info.isDir
           THEN /\ Fail("unexpected file", Ev("unexpected", info.name, FALSE, TRUE))
                /\ UNCHANGED << idx, target >>
           ELSE IF isBaseResource(info.name)
           THEN next /\ UNCHANGED << target, log, failure >>
           ELSE \E r \in ImportResources(target, fs, info.name, cancelled) :
                   /\ target' = r.target
                   /\ IF r.err
                      THEN /\ Fail("apply", Ev("rest", info.name, FALSE, TRUE))
                           /\ idx' = idx
                      ELSE /\ log' = Append(log, Ev("rest", info.name, TRUE, TRUE))
                           /\ failure' = failure
                           /\ next
    /\ UNCHANGED << runFrame, fs, unarchives, clock, cancelled, cancelledAt,
                    mapperResets, unpausedByRun >>

\* Import: one call of cm.ModifyResources that removes the pause annotation
\* (composite, claim and, with UnpauseAfterImport, managed). The caller may
\* cancel while the call is at work.
Unpause ==
    /\ pc = "unpause"
    /\ LET category == UnpauseSteps[idx]
       IN  \E r \in ModifyResources(target, category, RemovePaused, ModifyCtxDone) :
           \E midway \in {m \in BOOLEAN : m => (r.err /\ ~cancelled)} :
              /\ target' = r.target
              /\ unpausedByRun' =
                    unpausedByRun \cup
                    {o \in Objects : target[o] = "paused" /\ r.target[o] # "paused"}
              /\ cancelled' = (cancelled \/ midway)
              /\ cancelledAt' = IF midway THEN "unpause" ELSE cancelledAt
              /\ IF r.err
                 THEN /\ Fail("modify", Ev("unpause", category, FALSE, TRUE))
                      /\ idx' = idx
                 ELSE /\ log' = Append(log, Ev("unpause", category, TRUE, TRUE))
                      /\ failure' = failure
                      /\ IF idx < Len(UnpauseSteps)
                         THEN pc' = pc /\ idx' = idx + 1
                         ELSE pc' = "done" /\ idx' = idx
    /\ UNCHANGED << runFrame, fs, unarchives, clock, mapperResets >>

\* The caller cancels the context of a running Import.
Cancel ==
    /\ pc \in Running
    /\ ~cancelled
    /\ cancelled' = TRUE
    /\ cancelledAt' =
          IF pc = "unpause" /\ idx = 1 THEN "remainder" ELSE pc
    /\ UNCHANGED << runFrame, fs, unarchives, pc, idx, clock, target, log,
                    mapperResets, unpausedByRun, failure >>

\* The caller runs the import again after a run that reported success, with
\* the same archive and options: with a new importer or the same one.
NewRun ==
    /\ pc = "done"
    /\ run < MaxRuns
    /\ run' = run + 1
    /\ afterFirst' = target
    /\ pc' = "idle"
    /\ idx' = 1
    /\ clock' = 0
    /\ cancelled' = FALSE
    /\ cancelledAt' = ""
    /\ log' = << >>
    /\ mapperResets' = 0
    /\ unpausedByRun' = {}
    /\ failure' = ""
    /\ \/ fs' = NoFs /\ unarchives' = 0 /\ pf' = FALSE
       \/ UNCHANGED << fs, unarchives, pf >>
    /\ UNCHANGED << options, inputArchive, liveInfo, proceeded, pfErrs, target,
                    exportVars, waitVars, collectVars >>

\* ------------------------------------- waitForConditions, step by step
\* The waits of Import one after the other, each taken through the steps of
\* waitForConditions: the REST mapping, the context with the timeout, and
\* the loop of wait.UntilWithContext, which calls the poll at once and then
\* after every period until its context is done. The caller's context is
\* not cancelled here.

NoList == [called |-> FALSE, err |-> FALSE, items |-> << >>]

\* What dynamicClient.Resource(rm.Resource).List returns, or the error of
\* the list call or of the read of a status.
ListResults(gk) ==
    {[called |-> TRUE, err |-> TRUE, items |-> << >>]}
        \cup {[called |-> TRUE, err |-> FALSE, items |-> l] : l \in Lists(gk)}

\* The barrier of a wait: A, B or C.
BarrierOf(k) == IF k = 1 THEN "A" ELSE IF k <= 4 THEN "B" ELSE "C"

waitFrame == << importOnly, collectVars, exportVars >>

\* rm, err := im.resourceMapper.RESTMapping(gk); context.WithTimeout
WaitMapping ==
    /\ wpc = "start"
    /\ \/ /\ wpc' = "error"
          /\ wfailure' = "mapping"
          /\ UNCHANGED << wclock, wsuccess >>
       \/ /\ wpc' = "poll"
          /\ wclock' = 0
          /\ wsuccess' = FALSE
          /\ UNCHANGED wfailure
    /\ UNCHANGED << waitFrame, wi, spent, resourceList >>

\* The poll: resourceList, err := ...List(ctx, v1.ListOptions{})
WaitList ==
    /\ wpc = "poll"
    /\ wclock < TimeoutSeconds
    /\ resourceList' \in ListResults(Waits[wi].gk)
    /\ wpc' = "listed"
    /\ UNCHANGED << waitFrame, wi, wclock, spent, wsuccess, wfailure >>

\* The rest of the poll: an error returns (the next poll comes after the
\* period), the count of unmet instances, success and cancel().
WaitCount ==
    /\ wpc = "listed"
    /\ IF ~resourceList.err
            /\ PollSucceeds(Unmet(resourceList.items, Waits[wi].conditions))
       THEN /\ wsuccess' = TRUE
            /\ wpc' = WaitReturn(TRUE)
            /\ UNCHANGED << wclock, resourceList >>
       ELSE /\ wclock' = wclock + PeriodSeconds
            /\ wpc' = "poll"
            /\ resourceList' = NoList
            /\ UNCHANGED wsuccess
    /\ UNCHANGED << waitFrame, wi, spent, wfailure >>

\* The context of the wait is done with success still false.
WaitTimeout ==
    /\ wpc = "poll"
    /\ wclock >= TimeoutSeconds
    /\ wpc' = WaitReturn(wsuccess)
    /\ wfailure' = "timeout"
    /\ UNCHANGED << waitFrame, wi, wclock, spent, resourceList, wsuccess >>

\* Import after waitForConditions returned nil: the next wait, of the same
\* barrier or of the next one, or the mapper reset.
WaitNext ==
    /\ wpc = "nil"
    /\ IF wi < Len(Waits)
       THEN /\ wi' = wi + 1
            /\ wpc' = "start"
            /\ spent' = IF BarrierOf(wi + 1) # BarrierOf(wi) THEN 0
                         ELSE IF spent + wclock > 0 THEN PeriodSeconds ELSE 0
       ELSE /\ wpc' = "passed"
            /\ UNCHANGED << wi, spent >>
    /\ wclock' = 0
    /\ resourceList' = NoList
    /\ wsuccess' = FALSE
    /\ UNCHANGED << waitFrame, wfailure >>

\* No wait is taken step by step.
WaitIdle ==
    /\ wpc = "idle"
    /\ wi = 1
    /\ wclock = 0
    /\ spent = 0
    /\ resourceList = NoList
    /\ wsuccess = FALSE
    /\ wfailure = ""

\* ------------------------------------------------------------ CollectInfo

\* v1alpha1.CrossplaneInfo
CrossplaneInfo(ns, v, d, ff) ==
    [namespace |-> ns, version |-> v, distribution |-> d, featureFlags |-> ff]

\* The index of the first element of a list that satisfies a test; 0 when
\* there is none (the loops of CollectInfo end with break).
First(hits) == IF hits = {} THEN 0 ELSE CHOOSE k \in hits : \A j \in hits : k <= j

CoreContainers_any == {"crossplane", "universal-crossplane", "sidecar"}

\* if c.Name == "crossplane" || c.Name == "universal-crossplane"
CoreContainers == {"crossplane", "universal-crossplane"}

\* func CollectInfo(ctx, appsClient), on the deployments the list call
\* returned.
CollectInfo(dl) ==
    LET di == First({k \in 1..Len(dl) : dl[k].name = "crossplane"}) IN
    IF di = 0 THEN CrossplaneInfo("", "", "", << >>)
    ELSE LET d == dl[di]
             cs == d.containers
             ci == First({k \in 1..Len(cs) : cs[k].name \in CoreContainers})
         IN  CrossplaneInfo(d.namespace, d.labels.version, d.labels.instance,
                IF ci = 0 THEN << >>
                ELSE SelectSeq(cs[ci].args,
                               LAMBDA a : HasPrefix(a, << "--enable" >>)))

\* One call of CollectInfo: the list call fails, or the info is read.
CollectCall ==
    /\ cpc = "call"
    /\ cpc' = "returned"
    /\ \/ xp' = [err |-> TRUE, info |-> CrossplaneInfo("", "", "", << >>)]
       \/ xp' = [err |-> FALSE, info |-> CollectInfo(deployments)]
    /\ UNCHANGED << importOnly, waitVars, exportVars, deployments >>

\* CollectInfo is not called on its own.
CollectIdle ==
    /\ cpc = "idle"
    /\ deployments = << >>
    /\ xp = [err |-> FALSE, info |-> CrossplaneInfo("", "", "", << >>)]

\* ------------------------------------------------------------ the exporter

OwnerRef(av, k) == [apiVersion |-> av, kind |-> k]

\* A CustomResourceDefinition: its name, the name split at its dots, and its
\* owner references.
CRD(n, labels, owners) == [name |-> n, labels |-> labels, owners |-> owners]

BucketsCRD ==
    CRD(Managed, << "buckets", "s3", "aws", "upbound", "io" >>,
        << OwnerRef("pkg.crossplane.io/v1", "Provider") >>)
XNetworksCRD ==
    CRD(Composites, << "xnetworks", "example", "org" >>,
        << OwnerRef("v1", "ConfigMap"),
           OwnerRef("apiextensions.crossplane.io/v1",
                    "CompositeResourceDefinition") >>)
ProvidersCRD ==
    CRD("providers.pkg.crossplane.io",
        << "providers", "pkg", "crossplane", "io" >>, << >>)
WidgetsCRD == CRD("widgets.acme.io", << "widgets", "acme", "io" >>, << >>)

\* Options.IncludeExtraResources: "default: namespaces, configmaps, secrets".
DefaultExtraResources == << "namespaces", "configmaps", "secrets" >>

\* Options.ExcludeNamespaces: "default: except kube-system, kube-public,
\* kube-node-lease, local-path-storage".
DefaultExcludedNamespaces ==
    << "kube-system", "kube-public", "kube-node-lease", "local-path-storage" >>

\* The caller that builds Options from the configuration surface: a list
\* that was not specified (is empty) gets its default.
WithDefaults(cfg) ==
    [cfg EXCEPT
        !.IncludeExtraResources =
            IF @ = << >> THEN DefaultExtraResources ELSE @,
        !.ExcludeNamespaces =
            IF @ = << >> THEN DefaultExcludedNamespaces ELSE @]

extraResources_noExclude == Range(eopts.IncludeExtraResources)

\* func (e *ControlPlaneStateExporter) extraResources(): the keys of the map.
extraResources ==
    Range(eopts.IncludeExtraResources) \ Range(eopts.ExcludeResources)

\* func (e *ControlPlaneStateExporter) IncludedExtraResource(gr string) bool
IncludedExtraResource(gr) == \E r \in extraResources : gr = r

\* strings.HasSuffix(name, ".crossplane.io") on a name split at its dots:
\* the name ends in the labels crossplane and io and has a label before them.
HasCrossplaneSuffix(labels) ==
    /\ Len(labels) >= 3
    /\ labels[Len(labels) - 1] = "crossplane"
    /\ labels[Len(labels)] = "io"

shouldExport_anyCrossplaneOwner(in) ==
    \/ \E k \in 1..Len(in.owners) :
          \/ in.owners[k].apiVersion = "pkg.crossplane.io/v1"
          \/ in.owners[k].apiVersion = "apiextensions.crossplane.io/v1"
    \/ HasCrossplaneSuffix(in.labels)
    \/ IncludedExtraResource(in.name)

\* func (e *ControlPlaneStateExporter) shouldExport(in) bool
shouldExport(in) ==
    \/ \E k \in 1..Len(in.owners) :
          \/ in.owners[k].apiVersion = "pkg.crossplane.io/v1"
          \/ /\ in.owners[k].apiVersion = "apiextensions.crossplane.io/v1"
             /\ in.owners[k].kind = "CompositeResourceDefinition"
    \/ HasCrossplaneSuffix(in.labels)
    \/ IncludedExtraResource(in.name)

\* The objects a fetch of a type can return, as (namespace, name): the
\* namespaced types of the model and the cluster-scoped ones.
Keys(gr) ==
    IF gr \in {"secrets", "widgets.acme.io"}
    THEN {[ns |-> "ns1", name |-> "a"], [ns |-> "ns2", name |-> "a"]}
    ELSE IF gr = "configmaps" THEN {[ns |-> "ns1", name |-> "b"]}
    ELSE {[ns |-> "", name |-> "a"], [ns |-> "", name |-> "b"]}

FileName(n) == IF n = "a" THEN "a.yaml" ELSE "b.yaml"

\* FileSystemPersister: /<groupResource>/<namespace>/<name>.yaml for a
\* namespaced object, /<groupResource>/<name>.yaml for a cluster-scoped one.
ObjPath(gr, k) ==
    IF k.ns = "" THEN << gr, FileName(k.name) >>
    ELSE << gr, k.ns, FileName(k.name) >>

\* FileSystemPersister: the files of a type, with the type descriptor when
\* the persister was given a TypeMeta.
PersistFiles(gr, S, withType) ==
    {ObjPath(gr, k) : k \in S}
        \cup (IF withType THEN {<< gr, "_type.yaml" >>} ELSE {})

\* UnstructuredExporter.ExportResources(ctx, gvr): it fetches the objects of
\* the type and persists them; an error (of the fetch, which a done context
\* fails, or of a write) leaves the files written before it.
ExportResources(gr, withType, ctxDone) ==
    (IF ctxDone THEN {}
     ELSE {[err |-> FALSE, files |-> PersistFiles(gr, S, withType),
            count |-> Cardinality(S)] : S \in SUBSET Keys(gr)})
    \cup
    {[err |-> TRUE, files |-> F, count |-> 0] :
        F \in {{}} \cup (IF ctxDone THEN {}
                         ELSE {PersistFiles(gr, S, withType) :
                                  S \in (SUBSET Keys(gr)) \ {Keys(gr)}})}

\* ------------------------------------------------------------ the fetcher

\* A string as the segments the prefix checks of shouldSkip cut it into.
PkgGroup == << "pkg.crossplane.io" >>
HelmRelease == << "helm.sh/release" >>

\* An unstructured.Unstructured: what shouldSkip reads of it. managedBy is
\* the label app.kubernetes.io/managed-by ("" without it), type the field
\* type, specType the field spec.type, owners the apiVersions of the owner
\* references.
Obj(kind, apiVersion, namespace, name, managedBy, type, specType, owners) ==
    [kind |-> kind, apiVersion |-> apiVersion, namespace |-> namespace,
     name |-> name, managedBy |-> managedBy, type |-> type,
     specType |-> specType, owners |-> owners]

\* NewUnstructuredFetcher: includedNamespaces and excludedNamespaces.
includedNamespaces == Range(eopts.IncludeNamespaces)

excludedNamespaces_none == {}

excludedNamespaces == Range(eopts.ExcludeNamespaces)

namespaceInScope_includeWins(namespace) ==
    IF includedNamespaces # {}
    THEN namespace \in includedNamespaces
    ELSE namespace \notin excludedNamespaces

\* func (e *UnstructuredFetcher) namespaceInScope(namespace string) bool
namespaceInScope(namespace) ==
    IF includedNamespaces # {} /\ namespace \notin includedNamespaces
    THEN FALSE
    ELSE IF namespace \in excludedNamespaces THEN FALSE
    ELSE TRUE

shouldSkip_noOwnerRule(r) ==
    \/ r.kind = "Namespace" /\ ~namespaceInScope(r.name)
    \/ r.namespace # "" /\ ~namespaceInScope(r.namespace)
    \/ r.kind = "ConfigMap" /\ r.name = "kube-root-ca.crt"
    \/ r.managedBy = "Helm"
    \/ r.kind = "Secret" /\ HasPrefix(r.type, HelmRelease)
    \/ r.kind = "Lock" /\ HasPrefix(r.apiVersion, PkgGroup)

shouldSkip_noHelmSecret(r) ==
    \/ r.kind = "Namespace" /\ ~namespaceInScope(r.name)
    \/ r.namespace # "" /\ ~namespaceInScope(r.namespace)
    \/ r.kind = "ConfigMap" /\ r.name = "kube-root-ca.crt"
    \/ r.managedBy = "Helm"
    \/ \E k \in 1..Len(r.owners) : HasPrefix(r.owners[k], PkgGroup)
    \/ r.kind = "Lock" /\ HasPrefix(r.apiVersion, PkgGroup)

\* func (e *UnstructuredFetcher) shouldSkip(r unstructured.Unstructured) bool
shouldSkip(r) ==
    \/ r.kind = "Namespace" /\ ~namespaceInScope(r.name)
    \/ r.namespace # "" /\ ~namespaceInScope(r.namespace)
    \/ r.kind = "ConfigMap" /\ r.name = "kube-root-ca.crt"
    \/ r.managedBy = "Helm"
    \/ r.kind = "Secret" /\ HasPrefix(r.type, HelmRelease)
    \/ \E k \in 1..Len(r.owners) : HasPrefix(r.owners[k], PkgGroup)
    \/ r.kind = "Lock" /\ HasPrefix(r.apiVersion, PkgGroup)

Kept_firstPage(items) ==
    IF continueToken = << >> THEN SelectSeq(items, LAMBDA r : ~shouldSkip(r))
    ELSE << >>

\* FetchResources: the items of a page it appends to resources.
Kept(items) == SelectSeq(items, LAMBDA r : ~shouldSkip(r))

\* The server: the page a List call with this Continue is answered with.
\* The empty token asks for the first page, the token << k >> for page k.
PageOf(token) == IF token = << >> THEN 1 ELSE token[1]

\* The server: l.GetContinue() of page k, empty on the last page.
GetContinue(pages, k) == IF k >= Len(pages) THEN << >> ELSE << k + 1 >>

FetchPage_restart ==
    /\ fpc = "listing"
    /\ requests' = Append(requests, continueToken)
    /\ \/ /\ fpc' = "failed"
          /\ resources' = << >>
          /\ UNCHANGED continueToken
       \/ LET k == PageOf(continueToken)
          IN  /\ resources' = resources \o Kept(listing[k])
              /\ continueToken' = << >>
              /\ fpc' = IF GetContinue(listing, k) = << >>
                        THEN "done" ELSE "listing"
    /\ UNCHANGED << importVars, exportOnly, gvrVars, listing >>

\* func (e *UnstructuredFetcher) FetchResources: one round of the loop, the
\* List call with Continue: continueToken and what follows it.
FetchPage ==
    /\ fpc = "listing"
    /\ requests' = Append(requests, continueToken)
    /\ \/ \* List returns an error
          /\ fpc' = "failed"
          /\ resources' = << >>
          /\ UNCHANGED continueToken
       \/ LET k == PageOf(continueToken)
          IN  /\ resources' = resources \o Kept(listing[k])
              /\ continueToken' = GetContinue(listing, k)
              /\ fpc' = IF continueToken' = << >> THEN "done" ELSE "listing"
    /\ UNCHANGED << importVars, exportOnly, gvrVars, listing >>

\* ------------------------------------------------- customResourceGVR

\* The loop over in.Spec.Versions: the name of the last version with
\* Storage set, "" when there is none.
StorageVersion(versions) ==
    LET hits == {k \in 1..Len(versions) : versions[k].storage}
    IN  IF hits = {} THEN ""
        ELSE versions[CHOOSE k \in hits : \A j \in hits : j <= k].name

\* e.resourceMapper.RESTMapping(gk, version), a meta.RESTMapper: the
\* versions it may answer with. A version it is asked for is the one of
\* the mapping, and unknown to the mapper there is none; an empty version
\* asks for none, and the mapper answers with a version it knows of the
\* kind.
RESTMapping(known, version) ==
    IF version = "" THEN known ELSE known \cap {version}

\* func (e *ControlPlaneStateExporter) customResourceGVR
customResourceGVR ==
    /\ gpc = "call"
    /\ gpc' = "returned"
    /\ LET version == StorageVersion(crdIn.versions)
       IN  \/ \* RESTMapping returns an error
              gvrOut' = [err |-> TRUE, version |-> version, gvr |-> << >>]
           \/ \E v \in RESTMapping(mapped, version) :
                gvrOut' = [err |-> FALSE, version |-> version,
                           gvr |-> << crdIn.group, v, crdIn.plural >>]
    /\ UNCHANGED << importVars, exportOnly, fetchVars, crdIn, mapped >>

\* ------------------------------------------------------------ archive

\* The base name of the temporary directory (fs.TempDir("", "up")).
TmpBase == "up-tmp"

\* The names of the model in the byte order filepath.Walk sorts by.
NameOrder ==
    << "_type.yaml", "a.yaml", "b.yaml", "buckets.s3.aws.upbound.io",
       "configmaps", "export.yaml", "namespaces", "ns1", "ns2",
       "providers.pkg.crossplane.io", "secrets", "widgets.acme.io",
       "xnetworks.example.org" >>

Rank(n) == CHOOSE k \in 1..Len(NameOrder) : NameOrder[k] = n

\* p comes before q in the walk: a directory before what it holds, the
\* entries of a directory by name.
PathLess(p, q) ==
    \E k \in 1..(Len(p) + 1) :
        /\ k <= Len(q)
        /\ \A j \in 1..(k - 1) : p[j] = q[j]
        /\ k = Len(p) + 1 \/ Rank(p[k]) < Rank(q[k])

Entry(path, isDir) == [path |-> path, isDir |-> isDir]

\* The temporary directory itself, the directories above the files, and the
\* files, as paths relative to the temporary directory.
TreeEntries(files) ==
    {Entry(f, FALSE) : f \in files}
        \cup UNION {{Entry(SubSeq(f, 1, k), TRUE) : k \in 0..(Len(f) - 1)} :
                       f \in files}
        \cup {Entry(<< >>, TRUE)}

RECURSIVE Sorted(_)
Sorted(S) ==
    IF S = {} THEN << >>
    ELSE LET m == CHOOSE x \in S :
                     \A y \in S \ {x} : PathLess(x.path, y.path)
         IN  << m >> \o Sorted(S \ {m})

\* filepath.Walk(dir, ...): the root, then the tree in lexical order.
WalkOrder(files) == Sorted(TreeEntries(files))

\* fi.Name(): the base name of the walked path.
BaseName(path) == IF path = << >> THEN TmpBase ELSE path[Len(path)]

\* tar.FileInfoHeader(fi, fi.Name()): the header carries the base name of
\* the file, and nothing sets header.Name afterwards.
Header(e) == [name |-> << BaseName(e.path) >>, isDir |-> e.isDir]

\* ---------------------------------------- unarchive: the handler, per entry

\* The directories a memory filesystem registers above a path.
Parents(path) == {SubSeq(path, 1, k) : k \in 1..(Len(path) - 1)}

\* handler of unarchive on one entry of the tar: fs.Mkdir for a directory,
\* which fails on a name that exists; fs.OpenFile with O_CREATE|O_TRUNC for
\* a file, which replaces a file of the same name.
Handle(st, h) ==
    IF st.err THEN st
    ELSE IF h.isDir
    THEN IF h.name \in st.dirs \cup st.files
         THEN [st EXCEPT !.err = TRUE]
         ELSE [st EXCEPT !.dirs = @ \cup {h.name} \cup Parents(h.name)]
    ELSE IF h.name \in st.dirs
         THEN [st EXCEPT !.err = TRUE]
         ELSE [st EXCEPT !.files = @ \cup {h.name},
                         !.dirs = @ \cup Parents(h.name)]

RECURSIVE ExtractFrom(_, _)
ExtractFrom(st, entries) ==
    IF entries = << >> THEN st
    ELSE ExtractFrom(Handle(st, Head(entries)), Tail(entries))

\* format.Extract(ctx, ur, nil, handler) on the entries of an archive.
Extract(entries) ==
    ExtractFrom([files |-> {}, dirs |-> {}, err |-> FALSE], entries)

\* ------------------------------------------------------------------ Export

ExportRunning == {"start", "pause", "crds", "custom", "native", "archive", "walk"}

exportFrame == << importVars, eopts, crds, config, fetchVars, gvrVars >>

\* A step of Export in the log.
EEv(op, arg, ok) == [op |-> op, arg |-> arg, ok |-> ok]

Logged(ev) == elog' = Append(elog, ev)

Deferred_none == tmp

\* defer func() { _ = fs.RemoveAll(tmpDir) }(): what a return of Export
\* leaves of the temporary directory. Nothing is deferred before fs.TempDir
\* succeeded.
Deferred == IF tmp = "present" THEN "removed" ELSE tmp

\* A return of Export with an error.
EReturn ==
    /\ epc' = "failed"
    /\ tmp' = Deferred

FirstStep_noPause == "crds"

\* if e.options.PauseBeforeExport { ... }: where Export goes on after
\* fs.TempDir.
FirstStep == IF eopts.PauseBeforeExport THEN "pause" ELSE "crds"

\* cm.ModifyResources(ctx, "managed", AddAnnotations paused) on the source:
\* all managed resources are paused, or the call fails with none or some
\* of them paused.
PauseOutcomes(ctxDone) ==
    {[err |-> FALSE, paused |-> "all"] : x \in IF ctxDone THEN {} ELSE {0}}
    \cup
    {[err |-> TRUE, paused |-> q] :
        q \in IF ctxDone THEN {"none"} ELSE {"none", "some"}}

PauseReturn_ignore(err) == "continue"

\* if err != nil { return errors.Wrap(err, "cannot pause managed resources") }
PauseReturn(err) == IF err THEN "error" ELSE "continue"

\* tmpDir, err := fs.TempDir("", "up")
ExportTempDir ==
    /\ epc = "start"
    /\ \/ /\ EReturn
          /\ Logged(EEv("tempdir", "", FALSE))
          /\ UNCHANGED << tree >>
       \/ /\ tmp' = "present"
          /\ tree' = {}
          /\ epc' = FirstStep
          /\ Logged(EEv("tempdir", "", TRUE))
    /\ UNCHANGED << exportFrame, eidx, exportList, pending, walk, outFile,
                    ecancelled, sourcePaused, crCounts, nativeCounts >>

\* if e.options.PauseBeforeExport: cm.ModifyResources(ctx, "managed", ...)
ExportPause ==
    /\ epc = "pause"
    /\ \E o \in PauseOutcomes(ecancelled) :
        /\ sourcePaused' = o.paused
        /\ Logged(EEv("pause", "managed", ~o.err))
        /\ IF PauseReturn(o.err) = "error"
           THEN EReturn
           ELSE epc' = "crds" /\ UNCHANGED tmp
    /\ UNCHANGED << exportFrame, eidx, exportList, pending, tree, walk, outFile,
                    ecancelled, crCounts, nativeCounts >>

\* crdList, err := fetchAllCRDs(ctx, e.crdClient) and the loop that fills
\* exportList.
ExportSelect ==
    /\ epc = "crds"
    /\ \/ /\ ~ecancelled
          /\ exportList' = SelectSeq(crds, shouldExport)
          /\ epc' = "custom"
          /\ eidx' = 1
          /\ Logged(EEv("enumerate", "", TRUE))
          /\ UNCHANGED tmp
       \/ /\ EReturn
          /\ Logged(EEv("enumerate", "", FALSE))
          /\ UNCHANGED << exportList, eidx >>
    /\ UNCHANGED << exportFrame, pending, tree, walk, outFile, ecancelled,
                    sourcePaused, crCounts, nativeCounts >>

\* for _, crd := range exportList: customResourceGVR, ExportResources,
\* crCounts[...] = count; after the last one the loop over extraResources()
\* starts.
ExportCustom ==
    /\ epc = "custom"
    /\ IF eidx > Len(exportList)
       THEN /\ pending' = extraResources
            /\ epc' = "native"
            /\ UNCHANGED << eidx, tmp, tree, crCounts, elog >>
       ELSE LET gr == exportList[eidx].name IN
            /\ UNCHANGED pending
            /\ \/ \* customResourceGVR returns an error
                  /\ EReturn
                  /\ Logged(EEv("gvr", gr, FALSE))
                  /\ UNCHANGED << eidx, tree, crCounts >>
               \/ \E o \in ExportResources(gr, TRUE, ecancelled) :
                    /\ tree' = tree \cup o.files
                    /\ Logged(EEv("custom", gr, ~o.err))
                    /\ IF o.err
                       THEN EReturn /\ UNCHANGED << eidx, crCounts >>
                       ELSE /\ crCounts' = Append(crCounts, << gr, o.count >>)
                            /\ eidx' = eidx + 1
                            /\ UNCHANGED << epc, tmp >>
    /\ UNCHANGED << exportFrame, exportList, walk, outFile, ecancelled,
                    sourcePaused, nativeCounts >>

\* for r := range e.extraResources(): the order is the map's, so any;
\* ResourceFor, ExportResources with a persister without TypeMeta,
\* nativeCounts[gvr.Resource] = count.
ExportNative ==
    /\ epc = "native"
    /\ pending # {}
    /\ \E r \in pending :
        /\ pending' = pending \ {r}
        /\ \/ \* ResourceFor returns an error
              /\ EReturn
              /\ Logged(EEv("gvr", r, FALSE))
              /\ UNCHANGED << tree, nativeCounts >>
           \/ \E o \in ExportResources(r, FALSE, ecancelled) :
                /\ tree' = tree \cup o.files
                /\ Logged(EEv("native", r, ~o.err))
                /\ IF o.err
                   THEN EReturn /\ UNCHANGED nativeCounts
                   ELSE /\ nativeCounts' = Append(nativeCounts, << r, o.count >>)
                        /\ UNCHANGED << epc, tmp >>
    /\ UNCHANGED << exportFrame, eidx, exportList, walk, outFile, ecancelled,
                    sourcePaused, crCounts >>

\* me.ExportMetadata(ctx, e.options, nativeCounts, crCounts): it reads the
\* info of the source with ctx and writes export.yaml.
ExportMetadata ==
    /\ epc = "native"
    /\ pending = {}
    /\ \/ /\ ~ecancelled
          /\ tree' = tree \cup {<< "export.yaml" >>}
          /\ epc' = "archive"
          /\ Logged(EEv("manifest", "", TRUE))
          /\ UNCHANGED tmp
       \/ /\ EReturn
          /\ Logged(EEv("manifest", "", FALSE))
          /\ UNCHANGED tree
    /\ UNCHANGED << exportFrame, eidx, exportList, pending, walk, outFile,
                    ecancelled, sourcePaused, crCounts, nativeCounts >>

\* archive, up to the walk: fs.Create(e.options.OutputArchive), fs.Chmod,
\* the writers. It does not read ctx.
ArchiveCreate ==
    /\ epc = "archive"
    /\ \/ \* fs.Create returns an error
          /\ EReturn
          /\ Logged(EEv("archive", "create", FALSE))
          /\ UNCHANGED << outFile, walk, eidx >>
       \/ \* fs.Chmod returns an error
          /\ outFile' = [exists |-> TRUE, entries |-> << >>]
          /\ EReturn
          /\ Logged(EEv("archive", "chmod", FALSE))
          /\ UNCHANGED << walk, eidx >>
       \/ /\ outFile' = [exists |-> TRUE, entries |-> << >>]
          /\ walk' = WalkOrder(tree)
          /\ eidx' = 1
          /\ epc' = "walk"
          /\ Logged(EEv("archive", "create", TRUE))
          /\ UNCHANGED tmp
    /\ UNCHANGED << exportFrame, exportList, pending, tree, ecancelled,
                    sourcePaused, crCounts, nativeCounts >>

\* archive: the function filepath.Walk calls on one path. After the last
\* path archive returns nil and Export returns nil.
ArchiveWalk ==
    /\ epc = "walk"
    /\ eidx <= Len(walk)
    /\ \/ \* the walk passes an error, or os.Open, tar.FileInfoHeader or
          \* tw.WriteHeader returns one
          /\ EReturn
          /\ UNCHANGED << outFile, eidx >>
       \/ \* io.Copy returns an error
          /\ outFile' = [outFile EXCEPT !.entries = Append(@, Header(walk[eidx]))]
          /\ EReturn
          /\ UNCHANGED eidx
       \/ /\ outFile' = [outFile EXCEPT !.entries = Append(@, Header(walk[eidx]))]
          /\ eidx' = eidx + 1
          /\ IF eidx = Len(walk)
             THEN epc' = "done" /\ tmp' = Deferred
             ELSE UNCHANGED << epc, tmp >>
    /\ UNCHANGED << exportFrame, exportList, pending, tree, walk, ecancelled,
                    sourcePaused, crCounts, nativeCounts, elog >>

\* The caller cancels the context of Export.
ExportCancel ==
    /\ epc \in ExportRunning
    /\ ~ecancelled
    /\ ecancelled' = TRUE
    /\ UNCHANGED << exportFrame, epc, eidx, exportList, pending, tmp, tree,
                    walk, outFile, sourcePaused, crCounts, nativeCounts, elog >>

\* ----------------------------------------------------------- specification

Archives ==
    {[root |-> r, meta |-> Info("v1", << "--enable-a" >>), metaValid |-> TRUE] :
        r \in {RootFull, RootStray}}

LiveInfos == {Info("v1", << "--enable-a" >>), Info("v2", << >>)}

\* Targets: empty, and one that already holds paused and unpaused objects.
Targets ==
    {[o \in Objects |-> "absent"],
     [o \in Objects |->
        CASE o \in {"xr0", "mr0"} -> "paused"
          [] o = "mr1" -> "unpaused"
          [] OTHER -> "absent"]}

\* No fetch is under way.
FetchIdle ==
    /\ fpc = "idle"
    /\ listing = << >>
    /\ continueToken = << >>
    /\ resources = << >>
    /\ requests = << >>

\* customResourceGVR is not called.
GvrIdle ==
    /\ gpc = "idle"
    /\ crdIn = [group |-> "", kind |-> "", plural |-> "", versions |-> << >>]
    /\ mapped = {}
    /\ gvrOut = [err |-> FALSE, version |-> "", gvr |-> << >>]

\* No export is under way.
ExporterIdle ==
    /\ eopts = [PauseBeforeExport |-> FALSE, IncludeExtraResources |-> << >>,
                ExcludeResources |-> << >>, IncludeNamespaces |-> << >>,
                ExcludeNamespaces |-> << >>]
    /\ crds = << >>
    /\ epc = "idle"
    /\ eidx = 1
    /\ exportList = << >>
    /\ pending = {}
    /\ tmp = "none"
    /\ tree = {}
    /\ walk = << >>
    /\ outFile = [exists |-> FALSE, entries |-> << >>]
    /\ ecancelled = FALSE
    /\ sourcePaused = "none"
    /\ crCounts = << >>
    /\ nativeCounts = << >>
    /\ elog = << >>
    /\ config = eopts
    /\ FetchIdle

ExportIdle == ExporterIdle /\ GvrIdle

\* An importer as NewControlPlaneStateImporter makes it, with a caller that
\* has not called it yet.
InitImporter(archives) ==
    /\ options \in [UnpauseAfterImport : BOOLEAN]
    /\ inputArchive \in archives
    /\ liveInfo = NoInfo
    /\ fs = NoFs
    /\ unarchives = 0
    /\ pf = FALSE
    /\ proceeded = ""
    /\ pfErrs = << >>
    /\ pc = "idle"
    /\ idx = 1
    /\ clock = 0
    /\ cancelled = FALSE
    /\ cancelledAt = ""
    /\ target \in Targets
    /\ afterFirst = target
    /\ log = << >>
    /\ run = 1
    /\ mapperResets = 0
    /\ unpausedByRun = {}
    /\ failure = ""
    /\ WaitIdle
    /\ CollectIdle

Init == InitImporter(Archives) /\ ExportIdle

Next ==
    \/ PreflightChecks(LiveInfos)
    \/ ImportStart
    \/ ImportBase
    \/ WaitBegin
    \/ Poll
    \/ PollError
    \/ WaitExpire
    \/ ResetMapper
    \/ ImportRemaining
    \/ Unpause
    \/ Cancel
    \/ NewRun

Spec == Init /\ [][Next]_vars

\* --------------------------------------- specification: PreflightChecks
\* PreflightChecks on its own, over every manifest and every target state
\* of the bounds.

FlagNames == {"--enable-a", "--enable-b"}

\* The args of the core Crossplane container that CollectInfo keeps, and the
\* featureFlags of a manifest: up to MaxFlags of them, repeats included.
FlagLists == UNION {[1..n -> FlagNames] : n \in 0..MaxFlags}

WideInfos == {Info(v, ff) : v \in {"v1", "v2"}, ff \in FlagLists}

PreflightArchives ==
    {[root |-> r, meta |-> m, metaValid |-> b] :
        r \in {RootFull, << Dir("namespaces") >>},
        m \in WideInfos, b \in BOOLEAN}

InitPreflight == InitImporter(PreflightArchives) /\ ExportIdle

NextPreflight == PreflightChecks(WideInfos)

SpecPreflight == InitPreflight /\ [][NextPreflight]_vars

\* ------------------------------------------------ specification: Export
\* One call of Export on a source control plane.

ExportOptions ==
    {[PauseBeforeExport |-> p, IncludeExtraResources |-> i,
      ExcludeResources |-> x, IncludeNamespaces |-> << >>,
      ExcludeNamespaces |-> << >>] :
        p \in BOOLEAN,
        i \in {<< >>, << "namespaces", "secrets" >>,
               << "namespaces", "widgets.acme.io" >>},
        x \in {<< >>, << "secrets" >>}}

SourceCRDs ==
    {<< BucketsCRD, WidgetsCRD >>, << XNetworksCRD, ProvidersCRD, WidgetsCRD >>}

\* An importer that is not called.
ImporterIdle ==
    /\ options = [UnpauseAfterImport |-> FALSE]
    /\ inputArchive = [root |-> << >>, meta |-> NoInfo, metaValid |-> TRUE]
    /\ liveInfo = NoInfo
    /\ fs = NoFs
    /\ unarchives = 0
    /\ pf = FALSE
    /\ proceeded = ""
    /\ pfErrs = << >>
    /\ pc = "idle"
    /\ idx = 1
    /\ clock = 0
    /\ cancelled = FALSE
    /\ cancelledAt = ""
    /\ target = [o \in Objects |-> "absent"]
    /\ afterFirst = [o \in Objects |-> "absent"]
    /\ log = << >>
    /\ run = 1
    /\ mapperResets = 0
    /\ unpausedByRun = {}
    /\ failure = ""

ImportIdle == ImporterIdle /\ WaitIdle /\ CollectIdle

InitExport ==
    /\ ImportIdle
    /\ config \in ExportOptions
    /\ eopts = WithDefaults(config)
    /\ crds \in SourceCRDs
    /\ epc = "start"
    /\ eidx = 1
    /\ exportList = << >>
    /\ pending = {}
    /\ tmp = "none"
    /\ tree = {}
    /\ walk = << >>
    /\ outFile = [exists |-> FALSE, entries |-> << >>]
    /\ ecancelled = FALSE
    /\ sourcePaused = "none"
    /\ crCounts = << >>
    /\ nativeCounts = << >>
    /\ elog = << >>
    /\ FetchIdle
    /\ GvrIdle

NextExport ==
    \/ ExportTempDir
    \/ ExportPause
    \/ ExportSelect
    \/ ExportCustom
    \/ ExportNative
    \/ ExportMetadata
    \/ ArchiveCreate
    \/ ArchiveWalk
    \/ ExportCancel

SpecExport == InitExport /\ [][NextExport]_vars

\* ------------------------------------------ specification: shouldExport
\* The selection of Export on a source with one CustomResourceDefinition,
\* over every definition and every include and exclude list of the bounds.

SelectOwners ==
    {OwnerRef("pkg.crossplane.io/v1", "Provider"),
     OwnerRef("pkg.crossplane.io/v1beta1", "Lock"),
     OwnerRef("apiextensions.crossplane.io/v1", "CompositeResourceDefinition"),
     OwnerRef("apiextensions.crossplane.io/v1", "Composition"),
     OwnerRef("v1", "ConfigMap")}

\* Names with and without the suffix .crossplane.io; crossplane.io itself
\* and a name that ends in xcrossplane.io do not have it.
SelectNames ==
    {<< "widgets.acme.io", << "widgets", "acme", "io" >> >>,
     << "providers.pkg.crossplane.io", << "providers", "pkg", "crossplane", "io" >> >>,
     << "crossplane.io", << "crossplane", "io" >> >>,
     << "foo.xcrossplane.io", << "foo", "xcrossplane", "io" >> >>}

WideCRDs ==
    {CRD(n[1], n[2], o) :
        n \in SelectNames,
        o \in UNION {[1..k -> SelectOwners] : k \in 0..MaxOwners}}

SelectOptions ==
    {[PauseBeforeExport |-> FALSE, IncludeExtraResources |-> i,
      ExcludeResources |-> x, IncludeNamespaces |-> << >>,
      ExcludeNamespaces |-> << >>] :
        i \in {<< >>, << "widgets.acme.io" >>,
               << "namespaces", "crossplane.io" >>},
        x \in {<< >>, << "widgets.acme.io" >>}}

\* Export after fs.TempDir, about to list the definitions.
InitSelect ==
    /\ ImportIdle
    /\ config \in SelectOptions
    /\ eopts = WithDefaults(config)
    /\ crds \in {<< d >> : d \in WideCRDs}
    /\ epc = "crds"
    /\ eidx = 1
    /\ exportList = << >>
    /\ pending = {}
    /\ tmp = "present"
    /\ tree = {}
    /\ walk = << >>
    /\ outFile = [exists |-> FALSE, entries |-> << >>]
    /\ ecancelled = FALSE
    /\ sourcePaused = "none"
    /\ crCounts = << >>
    /\ nativeCounts = << >>
    /\ elog = << EEv("tempdir", "", TRUE) >>
    /\ FetchIdle
    /\ GvrIdle

NextSelect == ExportSelect

SpecSelect == InitSelect /\ [][NextSelect]_vars

\* ---------------------------------------- specification: FetchResources
\* One call of FetchResources from the loop of Export over exportList, on
\* a server that returns one object of the wide universe, or up to MaxPages
\* pages of up to MaxPageLen configmaps.

ApiV1 == << "v1" >>
PkgV1 == << "pkg.crossplane.io", "/v1" >>

\* kind, apiVersion, namespaced
FetchKinds ==
    {<< "Namespace", ApiV1, FALSE >>,
     << "Lock", << "pkg.crossplane.io", "/v1beta1" >>, FALSE >>,
     << "Lock", << "locks.acme.io", "/v1" >>, FALSE >>,
     << "Bucket", << "s3.aws.upbound.io", "/v1beta1" >>, FALSE >>,
     << "ConfigMap", ApiV1, TRUE >>,
     << "Secret", ApiV1, TRUE >>,
     << "Network", << "example.org", "/v1" >>, TRUE >>}

\* The objects a server may hold: a namespaced object has a namespace, a
\* cluster-scoped one has none.
ServerObjects ==
    LET names == {"a", "kube-root-ca.crt", "kube-system",
                  "local-path-storage", "tenant-a"}
        namespaces == {"tenant-a", "tenant-b", "kube-system",
                       "local-path-storage"}
        types == {<< >>, << "Opaque" >>, << "helm.sh/release", ".v1" >>}
        ownerVersions == {ApiV1, PkgV1, << "apiextensions.crossplane.io", "/v1" >>}
        owners == UNION {[1..k -> ownerVersions] : k \in 0..MaxOwners}
    IN  UNION {{Obj(kd[1], kd[2], ns, n, mb, t, st, ow) :
                    ns \in (IF kd[3] THEN namespaces ELSE {""}),
                    n \in names, mb \in {"", "Helm"}, t \in types,
                    st \in {<< >>, << "helm.sh/release", ".v1" >>},
                    ow \in owners} : kd \in FetchKinds}

ConfigMapOf(ns, n) == Obj("ConfigMap", ApiV1, ns, n, "", << >>, << >>, << >>)

PagePool ==
    {ConfigMapOf("tenant-a", "a"), ConfigMapOf("tenant-b", "a"),
     ConfigMapOf("tenant-a", "kube-root-ca.crt")}

\* Up to MaxPages pages of up to MaxPageLen configmaps.
PagedListings ==
    LET pages == UNION {[1..k -> PagePool] : k \in 0..MaxPageLen}
    IN  UNION {[1..k -> pages] : k \in 1..MaxPages}

Listings == {<< << r >> >> : r \in ServerObjects} \cup PagedListings

FetchConfigs ==
    {[PauseBeforeExport |-> FALSE, IncludeExtraResources |-> << >>,
      ExcludeResources |-> << >>, IncludeNamespaces |-> i,
      ExcludeNamespaces |-> x] :
        i \in {<< >>, << "tenant-a" >>},
        x \in {<< >>, << "tenant-a" >>, << "tenant-b" >>}}

\* Export in its loop over exportList, at a selected type, its fetcher
\* about to list, for one of the configurations and one of the listings.
InitFetchOn(configs, listings) ==
    /\ ImportIdle
    /\ config \in configs
    /\ eopts = WithDefaults(config)
    /\ crds = << BucketsCRD >>
    /\ exportList = << BucketsCRD >>
    /\ epc = "custom"
    /\ eidx = 1
    /\ pending = {}
    /\ tmp = "present"
    /\ tree = {}
    /\ walk = << >>
    /\ outFile = [exists |-> FALSE, entries |-> << >>]
    /\ ecancelled = FALSE
    /\ sourcePaused = "none"
    /\ crCounts = << >>
    /\ nativeCounts = << >>
    /\ elog = << EEv("tempdir", "", TRUE), EEv("enumerate", "", TRUE) >>
    /\ fpc = "listing"
    /\ listing \in listings
    /\ continueToken = << >>
    /\ resources = << >>
    /\ requests = << >>
    /\ GvrIdle

InitFetch == InitFetchOn(FetchConfigs, Listings)

NextFetch == FetchPage

SpecFetch == InitFetch /\ [][NextFetch]_vars

\* The loop of FetchResources goes on as long as it can: a List call
\* returns, with a page or an error. The server answers with pages of
\* configmaps; the caller set no namespace filter.
InitFetchLive ==
    InitFetchOn({c \in FetchConfigs : c.IncludeNamespaces = << >>
                                       /\ c.ExcludeNamespaces = << >>},
                PagedListings)

SpecFetchLive == InitFetchLive /\ [][NextFetch]_vars /\ WF_vars(FetchPage)

\* -------------------------------- specification: customResourceGVR
\* One call of customResourceGVR for a definition with up to MaxVersions
\* versions, any of them marked as the storage version or none, with a
\* REST mapper that knows any of the versions of the kind.

VersionNames == {"v1alpha1", "v1beta1", "v1"}

InitGVR ==
    /\ ImportIdle
    /\ ExporterIdle
    /\ gpc = "call"
    /\ \E n \in 0..MaxVersions :
          \E names \in [1..n -> VersionNames], marks \in [1..n -> BOOLEAN] :
             /\ \A j, k \in 1..n : names[j] = names[k] => j = k
             /\ crdIn = [group |-> "acme.io", kind |-> "Widget",
                         plural |-> "widgets",
                         versions |-> [k \in 1..n |->
                             [name |-> names[k], storage |-> marks[k]]]]
    /\ mapped \in SUBSET VersionNames
    /\ gvrOut = [err |-> FALSE, version |-> "", gvr |-> << >>]

NextGVR == customResourceGVR

SpecGVR == InitGVR /\ [][NextGVR]_vars

\* -------------------------------------- specification: the barriers
\* The seven waits of Import, from the first on, each step by step, over
\* every list of up to MaxInstances instances a poll can be given.

InitWait ==
    /\ ImporterIdle
    /\ CollectIdle
    /\ ExportIdle
    /\ wpc = "start"
    /\ wi = 1
    /\ wclock = 0
    /\ spent = 0
    /\ resourceList = NoList
    /\ wsuccess = FALSE
    /\ wfailure = ""

NextWait ==
    \/ WaitMapping
    \/ WaitList
    \/ WaitCount
    \/ WaitTimeout
    \/ WaitNext

SpecWait == InitWait /\ [][NextWait]_vars

\* ------------------------------------------ specification: CollectInfo
\* One call of CollectInfo, over targets with one deployment of the wide
\* universe, alone or after another deployment.

\* The most arguments of a container.
MaxArgs == 2

\* The deployments of a target: a deployment has a name, a namespace, the
\* labels app.kubernetes.io/version and app.kubernetes.io/instance ("" when
\* it lacks one) and containers, each with a name and arguments; an
\* argument is cut after --enable when it begins with it.
DeploymentLists ==
    LET args == {<< "--enable", "-a" >>, << "--enable", "-b" >>, << "--debug" >>}
        Container(n, a) == [name |-> n, args |-> a]
        Deployment(n, ns, v, i, cs) ==
            [name |-> n, namespace |-> ns,
             labels |-> [version |-> v, instance |-> i], containers |-> cs]
        argLists == UNION {[1..k -> args] : k \in 0..MaxArgs}
        wideC == {Container(n, a) :
                    n \in {"crossplane", "universal-crossplane", "sidecar"},
                    a \in argLists}
        beforeC == {Container("sidecar", << << "--enable", "-b" >> >>),
                    Container("universal-crossplane", << << "--enable", "-b" >> >>)}
        containerLists ==
            {<< >>} \cup {<< c >> : c \in wideC}
                \cup {<< b, c >> : b \in beforeC, c \in wideC}
        wideD == {Deployment(n, ns, v, i, cs) :
                    n \in {"crossplane", "crossplane-rbac-manager"},
                    ns \in {"crossplane-system", "upbound-system"},
                    v \in {"", "v1"}, i \in {"", "uxp"},
                    cs \in containerLists}
        beforeD == {Deployment("coredns", "kube-system", "v9", "dns",
                        << Container("crossplane", << << "--enable", "-b" >> >>) >>),
                    Deployment("crossplane", "other-system", "v0", "",
                        << Container("crossplane", << >>) >>)}
    IN  {<< >>} \cup {<< d >> : d \in wideD}
            \cup {<< b, d >> : b \in beforeD, d \in wideD}

InitCollect ==
    /\ ImporterIdle
    /\ WaitIdle
    /\ ExportIdle
    /\ cpc = "call"
    /\ deployments \in DeploymentLists
    /\ xp = [err |-> FALSE, info |-> CrossplaneInfo("", "", "", << >>)]

NextCollect == CollectCall

SpecCollect == InitCollect /\ [][NextCollect]_vars

\* ---------------------------------------------------- claims: the importer

Returned == pc \in {"done", "failed"}

\* The log has the event before position i.
Before(i, ev) == \E j \in 1..(i - 1) : log[j] = ev

Happened(ev) == \E j \in 1..Len(log) : log[j] = ev

PackageKinds == {"Provider", "Function", "Configuration"}
RevisionKinds == {"ProviderRevision", "FunctionRevision", "ConfigurationRevision"}

\* C1: every attempt to import a remainder-tier type comes after a poll of
\* CompositeResourceDefinitions, in this run, that ended the wait and in
\* which every instance had Established = True.
C1_EstablishedBeforeRemainder ==
    \A i \in 1..Len(log) :
        log[i].op = "rest" =>
            Before(i, Ev("wait", "CompositeResourceDefinition", TRUE, TRUE))

\* C1 witness: a composite of a type an XRD introduces has been applied.
C1_Witness ==
    /\ Happened(Ev("rest", Composites, TRUE, TRUE))
    /\ target["xr1"] = "paused"
    /\ fs.complete

\* C2: every attempt to import a remainder-tier type comes after polls of
\* Providers, of Functions and of Configurations that ended their waits and
\* in which every instance had Installed = True and Healthy = True.
C2_PackagesReadyBeforeRemainder ==
    \A i \in 1..Len(log) :
        log[i].op = "rest" =>
            \A gk \in PackageKinds : Before(i, Ev("wait", gk, TRUE, TRUE))

\* C2 witness: a managed resource of a type a provider installs has been
\* applied.
C2_Witness ==
    /\ Happened(Ev("rest", Managed, TRUE, TRUE))
    /\ target["mr1"] = "paused"
    /\ pc = "remainder"

\* The step of the import order an event of the log belongs to.
StepOf(ev) ==
    CASE ev.op = "base" -> 1
      [] ev.op \in {"wait", "deadline", "ctxdone", "mapping"}
            /\ ev.arg = "CompositeResourceDefinition" -> 2
      [] ev.op \in {"wait", "deadline", "ctxdone", "mapping"}
            /\ ev.arg \in PackageKinds -> 3
      [] ev.op \in {"wait", "deadline", "ctxdone", "mapping"}
            /\ ev.arg \in RevisionKinds -> 4
      [] ev.op = "reset" -> 5
      [] ev.op \in {"rest", "unexpected"} -> 6
      [] ev.op = "unpause" /\ ev.arg = "composite" -> 7
      [] ev.op = "unpause" /\ ev.arg = "claim" -> 8
      [] ev.op = "unpause" /\ ev.arg = "managed" -> 9
      [] OTHER -> 0

\* The step has completed successfully in this run.
StepDone(s) ==
    CASE s = 1 -> \A k \in 1..Len(baseResources) :
                     Happened(Ev("base", baseResources[k], TRUE, TRUE))
      [] s = 2 -> Happened(Ev("wait", "CompositeResourceDefinition", TRUE, TRUE))
      [] s = 3 -> \A gk \in PackageKinds : Happened(Ev("wait", gk, TRUE, TRUE))
      [] s = 4 -> \A gk \in RevisionKinds : Happened(Ev("wait", gk, TRUE, TRUE))
      [] s = 5 -> Happened(Ev("reset", "", TRUE, TRUE))
      [] s = 6 -> \A k \in 1..Len(fs.root) :
                     (fs.root[k].isDir /\ ~isBaseResource(fs.root[k].name)) =>
                        Happened(Ev("rest", fs.root[k].name, TRUE, TRUE))
      [] s = 7 -> Happened(Ev("unpause", "composite", TRUE, TRUE))
      [] s = 8 -> Happened(Ev("unpause", "claim", TRUE, TRUE))
      [] OTHER -> Happened(Ev("unpause", "managed", TRUE, TRUE))

\* C3 (amended): the steps of Import come in the order base tier, barrier A,
\* barrier B, barrier C, mapper reset, remainder tier, unpause composite,
\* unpause claim, unpause managed; a step is only started when every step
\* before it has completed successfully; managed is unpaused only with
\* UnpauseAfterImport; and a run that reports success has completed them all.
C3_ImportStepsInOrder ==
    /\ \A i \in 1..Len(log) :
          /\ StepOf(log[i]) \in 1..9
          /\ \A j \in 1..(i - 1) :
                log[j].ok /\ StepOf(log[j]) <= StepOf(log[i])
          /\ \A s \in 1..(StepOf(log[i]) - 1) :
                s <= 8 => StepDone(s)
          /\ StepOf(log[i]) = 9 => options.UnpauseAfterImport
    /\ pc = "done" =>
          \A s \in 1..9 : (s = 9 => options.UnpauseAfterImport) => StepDone(s)

\* C3 witness: a run that went through all nine steps.
C3_Witness ==
    /\ pc = "done"
    /\ options.UnpauseAfterImport
    /\ \A s \in 1..9 : StepDone(s)
    /\ fs.root = RootFull

\* C3 as claimed: the order above, with preflight as the first step: Import
\* only starts when PreflightChecks has completed successfully.
C3_PreflightThenImportInOrder ==
    /\ C3_ImportStepsInOrder
    /\ pc \in Running => proceeded = "clean"

\* C4: when the deadline of a barrier expires, Import returns an error there
\* and then: the mapper is not reset, no remainder-tier type is imported and
\* no category is unpaused.
C4_DeadlineStopsImport ==
    \A i \in 1..Len(log) :
        log[i].op = "deadline" =>
            /\ i = Len(log)
            /\ pc = "failed"
            /\ failure = "deadline"
            /\ mapperResets = 0
            /\ unpausedByRun = {}
            /\ \A j \in 1..Len(log) : StepOf(log[j]) < 5

\* C4 witness: the deadline of the wait for Functions expired.
C4_Witness ==
    /\ pc = "failed"
    /\ failure = "deadline"
    /\ log[Len(log)] = Ev("deadline", "Function", FALSE, FALSE)

ManagedObjects == {o \in Objects : "managed" \in CategoriesOf(TypeOf(o))}

\* C5: when Import reports success, no composite and no claim on the target
\* has the pause annotation (composites were unpaused before claims); with
\* UnpauseAfterImport no managed resource has it either; without it Import
\* has not modified managed resources: it removed the annotation from none
\* of them and those it imported are paused.
C5_UnpauseAtEnd ==
    pc = "done" =>
        /\ \A o \in Live(target, "composite") \cup Live(target, "claim") :
              target[o] = "unpaused"
        /\ \E i, j \in 1..Len(log) :
              /\ i < j
              /\ log[i] = Ev("unpause", "composite", TRUE, TRUE)
              /\ log[j] = Ev("unpause", "claim", TRUE, TRUE)
        /\ options.UnpauseAfterImport =>
              \A o \in Live(target, "managed") : target[o] = "unpaused"
        /\ ~options.UnpauseAfterImport =>
              /\ ~\E i \in 1..Len(log) : StepOf(log[i]) = 9
              /\ unpausedByRun \cap ManagedObjects = {}
              /\ \A o \in ArchivedOf(fs, Managed) : target[o] = "paused"

\* C5 witness: a successful import without UnpauseAfterImport that imported
\* a composite, a claim and a managed resource.
C5_Witness ==
    /\ pc = "done"
    /\ ~options.UnpauseAfterImport
    /\ target["xr1"] = "unpaused"
    /\ target["claim1"] = "unpaused"
    /\ target["mr1"] = "paused"
    /\ "xr1" \in unpausedByRun

\* C6 as claimed: when a cancelled run returns, it has removed no pause
\* annotation.
C6_CancelledRunRemovedNoAnnotation ==
    (Returned /\ cancelled) => unpausedByRun = {}

\* C6 (amended): a run cancelled before its first unpause call started has
\* removed no pause annotation, at any moment up to and after its return.
C6_CancelledBeforeUnpause ==
    (cancelled /\ cancelledAt # "unpause") => unpausedByRun = {}

\* C6 witness: a run cancelled in the remainder tier that returned with a
\* part of the archive imported, paused.
C6_Witness ==
    /\ Returned
    /\ cancelled
    /\ cancelledAt = "remainder"
    /\ target["mr1"] = "paused"
    /\ target["xr1"] = "absent"

\* C7: when the second run reports success, the target is as the first run
\* left it: the same objects, with the same pause annotations.
C7_SecondRunIsNoOp ==
    (run = 2 /\ pc = "done") => target = afterFirst

\* ------------------------------------------------- claims: PreflightChecks

\* PreflightChecks read the target and the manifest and went on to compare.
Compared ==
    /\ pf
    /\ \A k \in 1..Len(pfErrs) : pfErrs[k].kind \in {"version", "flag"}

Count(seq, x) == Cardinality({k \in 1..Len(seq) : seq[k] = x})

\* C8: when PreflightChecks has read the target's info and the manifest, it
\* reports exactly one version error iff the observed version differs from
\* the exported one, and for every feature flag one error per occurrence of
\* the flag in the manifest when the flag is not among the target's args and
\* none when it is; it reports nothing else, so with equal versions and every
\* exported flag present it reports no error.
C8_PreflightErrors ==
    Compared =>
        LET em == inputArchive.meta IN
        /\ Count(pfErrs, PfErr("version", "")) =
               (IF liveInfo.version # em.version THEN 1 ELSE 0)
        /\ \A f \in FlagNames :
               Count(pfErrs, PfErr("flag", f)) =
                  (IF f \in Range(liveInfo.flags) THEN 0 ELSE Count(em.flags, f))
        /\ \A k \in 1..Len(pfErrs) :
               pfErrs[k].kind = "flag" => pfErrs[k].flag \in FlagNames
        /\ (liveInfo.version = em.version
              /\ Range(em.flags) \subseteq Range(liveInfo.flags)) => pfErrs = << >>

\* A version mismatch and two missing flags, reported as three errors, on a
\* target that has another flag set.
C8_Witness ==
    /\ Compared
    /\ liveInfo = Info("v2", << "--enable-b" >>)
    /\ inputArchive.meta = Info("v1", << "--enable-a", "--enable-a" >>)
    /\ pfErrs = << PfErr("version", ""), PfErr("flag", "--enable-a"),
                   PfErr("flag", "--enable-a") >>

\* ------------------------------------------------------ claims: the exporter

\* C9: when Export has returned an error, or has returned after its context
\* was cancelled, there is no file at the output path.
C9_NoArchiveAfterFailure ==
    (epc = "failed" \/ (ecancelled /\ epc = "done")) => ~outFile.exists

\* C10: when Export has returned nil, extracting the archive as unarchive
\* does succeeds and yields every file the exporter wrote, each at its path
\* relative to the export root, and so as many files as were written.
C10_ArchiveKeepsTree ==
    epc = "done" =>
        LET x == Extract(outFile.entries) IN
        /\ ~x.err
        /\ x.files = tree
        /\ Cardinality(x.files) = Cardinality(tree)

\* The step ev is in the log of Export before position i.
EBefore(i, ev) == \E j \in 1..(i - 1) : elog[j] = ev

EReturned == epc \in {"failed", "done"}

\* C11: in every export run, the pause (when requested) has succeeded before
\* the enumeration of custom types and nothing else precedes it but the
\* creation of the temporary directory; the enumeration has succeeded before
\* any type is resolved or extracted; when the manifest is written every
\* selected custom type and every native resource has been extracted and
\* none is extracted afterwards; the archive is begun after the manifest was
\* written and is the last step, and a successful run ends with it.
C11_ExportStepsInOrder ==
    /\ \A i \in 1..Len(elog) :
        LET e == elog[i] IN
        /\ e.op = "pause" =>
              \A j \in 1..(i - 1) : elog[j].op = "tempdir"
        /\ e.op = "enumerate" =>
              (eopts.PauseBeforeExport => EBefore(i, EEv("pause", "managed", TRUE)))
        /\ e.op \in {"gvr", "custom", "native"} =>
              EBefore(i, EEv("enumerate", "", TRUE))
        /\ e.op = "manifest" =>
              /\ \A k \in 1..Len(exportList) :
                    EBefore(i, EEv("custom", exportList[k].name, TRUE))
              /\ \A r \in extraResources : EBefore(i, EEv("native", r, TRUE))
              /\ \A j \in (i + 1)..Len(elog) : elog[j].op = "archive"
        /\ e.op = "archive" =>
              /\ EBefore(i, EEv("manifest", "", TRUE))
              /\ i = Len(elog)
    /\ outFile.exists => << "export.yaml" >> \in tree
    /\ epc = "done" => elog[Len(elog)] = EEv("archive", "create", TRUE)

\* C11 witness: a successful export that paused, extracted three custom
\* types and two native resources, wrote the manifest and archived.
C11_Witness ==
    /\ epc = "done"
    /\ eopts.PauseBeforeExport
    /\ Len(exportList) = 3
    /\ Cardinality(extraResources) = 2
    /\ Len(elog) = 10

\* C12: with PauseBeforeExport the pause is the first step after the
\* temporary directory and, once past it, all managed resources are paused;
\* when the pause fails Export has returned an error and has enumerated no
\* type, extracted nothing, written no manifest and created no archive;
\* without PauseBeforeExport Export pauses nothing.
C12_PauseFirstAndFatal ==
    /\ (eopts.PauseBeforeExport /\ Len(elog) >= 2) => elog[2].op = "pause"
    /\ (eopts.PauseBeforeExport /\ epc \in {"crds", "custom", "native",
                                             "archive", "walk", "done"})
          => sourcePaused = "all"
    /\ (\E i \in 1..Len(elog) : elog[i] = EEv("pause", "managed", FALSE)) =>
          /\ epc = "failed"
          /\ elog[Len(elog)] = EEv("pause", "managed", FALSE)
          /\ exportList = << >> /\ crCounts = << >> /\ nativeCounts = << >>
          /\ tree = {}
          /\ ~outFile.exists
    /\ ~eopts.PauseBeforeExport =>
          /\ sourcePaused = "none"
          /\ \A i \in 1..Len(elog) : elog[i].op # "pause"

\* C12 witness: the pause failed after it paused some managed resources.
C12_Witness ==
    /\ epc = "failed"
    /\ eopts.PauseBeforeExport
    /\ sourcePaused = "some"
    /\ elog = << EEv("tempdir", "", TRUE), EEv("pause", "managed", FALSE) >>

\* C13: when Export has returned, with nil or with an error of any step or
\* after a cancellation, the temporary directory is not there: it was
\* removed if it had been created.
C13_TmpDirRemoved ==
    EReturned =>
        /\ tmp # "present"
        /\ elog[1] = EEv("tempdir", "", TRUE) => tmp = "removed"

\* C13 witness: a cancelled export that had written files returned an error
\* and the directory is removed.
C13_Witness ==
    /\ epc = "failed"
    /\ ecancelled
    /\ tree # {}
    /\ tmp = "removed"

\* ------------------------------------------------- claims: the selection

\* The first three rules of the selection, on the owner references and the
\* name of a definition.
PackageOwned(T) ==
    \E r \in Range(T.owners) : r.apiVersion = "pkg.crossplane.io/v1"

XRDOwned(T) ==
    \E r \in Range(T.owners) :
        r = OwnerRef("apiextensions.crossplane.io/v1", "CompositeResourceDefinition")

CoreName(T) == T.name \in {"providers.pkg.crossplane.io"}

\* C14 as claimed: the one discovered type is selected iff it is owned by a
\* package, owned by a CompositeResourceDefinition, has a name with suffix
\* .crossplane.io, or its name is in the include-extra-resources list.
C14_SelectedIffRuleOrIncluded ==
    epc = "custom" =>
        LET T == crds[1] IN
        (exportList = << T >>) <=>
            \/ PackageOwned(T) \/ XRDOwned(T) \/ CoreName(T)
            \/ T.name \in Range(eopts.IncludeExtraResources)

\* C14 (amended): the one discovered type is selected iff it is owned by a
\* package, owned by a CompositeResourceDefinition, has a name with suffix
\* .crossplane.io, or its name is in the include-extra-resources list and
\* not in the exclude-resources list; a type that is not selected is left
\* out.
C14_SelectedIffRule ==
    epc = "custom" =>
        LET T == crds[1]
            sel == \/ PackageOwned(T) \/ XRDOwned(T) \/ CoreName(T)
                   \/ /\ T.name \in Range(eopts.IncludeExtraResources)
                      /\ T.name \notin Range(eopts.ExcludeResources)
        IN  exportList = IF sel THEN << T >> ELSE << >>

\* C14 witness: a type owned by a package whose name does not end in
\* .crossplane.io and is not included is selected.
C14_Witness ==
    /\ epc = "custom"
    /\ crds[1].name = "widgets.acme.io"
    /\ crds[1].owners = << OwnerRef("v1", "ConfigMap"),
                           OwnerRef("pkg.crossplane.io/v1", "Provider") >>
    /\ config.IncludeExtraResources = << >>
    /\ exportList = crds

\* ------------------------------------------- claims: the native resources

\* The native resources of the configuration: the include list, or the
\* defaults when it is empty, without the exclude list.
EffectiveNative ==
    (IF config.IncludeExtraResources = << >>
     THEN {"namespaces", "configmaps", "secrets"}
     ELSE Range(config.IncludeExtraResources))
        \ Range(config.ExcludeResources)

\* The native resources Export has fetched and persisted.
NativeExtracted ==
    {elog[i].arg : i \in {j \in 1..Len(elog) : elog[j].op = "native" /\ elog[j].ok}}

RECURSIVE Flatten(_)
Flatten(pages) ==
    IF pages = << >> THEN << >> ELSE Head(pages) \o Flatten(Tail(pages))

Listed == Range(Flatten(listing))

Fetched == Range(resources)

\* The namespace rule, as stated.
OutOfScope(ns) ==
    \/ Range(eopts.IncludeNamespaces) # {}
            /\ ns \notin Range(eopts.IncludeNamespaces)
    \/ ns \in Range(eopts.ExcludeNamespaces)

NamespaceSkip(r) ==
    \/ r.kind = "Namespace" /\ OutOfScope(r.name)
    \/ r.namespace # "" /\ OutOfScope(r.namespace)

PackageOwnedObject(r) ==
    \E k \in 1..Len(r.owners) : r.owners[k][1] = "pkg.crossplane.io"

\* The rules that do not look at namespaces.
SystemArtifact(r) ==
    \/ r.kind = "ConfigMap" /\ r.name = "kube-root-ca.crt"
    \/ r.managedBy = "Helm"
    \/ r.kind = "Secret" /\ r.type # << >> /\ r.type[1] = "helm.sh/release"
    \/ PackageOwnedObject(r)
    \/ r.kind = "Lock" /\ r.apiVersion[1] = "pkg.crossplane.io"

\* C16: a fetch that succeeds has read every page and returns, in the
\* server's order, exactly the listed objects that no skip rule matches.
C16_FetchReturnsUnskipped ==
    fpc = "done" =>
        /\ Len(requests) = Len(listing)
        /\ resources = SelectSeq(Flatten(listing),
                LAMBDA r : ~(NamespaceSkip(r) \/ SystemArtifact(r)))

C16_Witness ==
    /\ fpc = "done"
    /\ Len(listing) = 2
    /\ listing[1] = << ConfigMapOf("tenant-a", "a") >>
    /\ listing[2] = << ConfigMapOf("tenant-a", "kube-root-ca.crt"),
                       ConfigMapOf("tenant-b", "a") >>
    /\ resources = << ConfigMapOf("tenant-a", "a"), ConfigMapOf("tenant-b", "a") >>

\* C17: a namespace is out of scope when the include list is non-empty and
\* lacks it, or else when the exclude list holds it; Namespace objects (by
\* name) and namespaced objects (by namespace) out of scope are not
\* returned, and other cluster-scoped objects are returned or not whatever
\* the two lists hold.
C17_NamespaceScope ==
    fpc = "done" =>
        \A r \in Listed :
            /\ (r.kind = "Namespace" /\ OutOfScope(r.name)) => r \notin Fetched
            /\ (r.namespace # "" /\ OutOfScope(r.namespace)) => r \notin Fetched
            /\ (r.kind # "Namespace" /\ r.namespace = "")
                    => (r \in Fetched <=> ~SystemArtifact(r))
            /\ (~NamespaceSkip(r) /\ ~SystemArtifact(r)) => r \in Fetched

C17_Witness ==
    /\ fpc = "done"
    /\ eopts.IncludeNamespaces = << "tenant-a" >>
    /\ eopts.ExcludeNamespaces = << "tenant-a" >>
    /\ \E r \in Listed : r.namespace = "tenant-a" /\ ~SystemArtifact(r)
    /\ resources = << >>

C19_HelmSecretBySpecType ==
    fpc = "done" =>
        \A r \in Listed :
            (r.kind = "Secret" /\ r.specType # << >>
                    /\ r.specType[1] = "helm.sh/release")
                => r \notin Fetched

\* C19: a Secret whose type field starts with helm.sh/release is not
\* returned, and its spec.type decides nothing.
C19_HelmSecretByType ==
    fpc = "done" =>
        \A r \in Listed :
            /\ (r.kind = "Secret" /\ r.type # << >>
                    /\ r.type[1] = "helm.sh/release")
                => r \notin Fetched
            /\ r \in Fetched
                <=> [r EXCEPT !.specType = << >>] \in
                        Range(Kept(<< [r EXCEPT !.specType = << >>] >>))

C19_Witness ==
    /\ fpc = "done"
    /\ \E r \in Listed :
        /\ r.kind = "Secret"
        /\ r.type = << "helm.sh/release", ".v1" >>
        /\ r.specType = << >>
        /\ r.managedBy = "" /\ r.owners = << >>
        /\ ~NamespaceSkip(r)
    /\ resources = << >>

\* C20: an object with an owner reference whose apiVersion starts with
\* pkg.crossplane.io is not returned, even when its type was selected for
\* export; an object without one that no other rule matches is returned.
C20_PackageOwnedSkipped ==
    fpc = "done" =>
        \A r \in Listed :
            /\ PackageOwnedObject(r) => r \notin Fetched
            /\ (/\ ~PackageOwnedObject(r)
                 /\ ~NamespaceSkip(r)
                 /\ ~(r.kind = "ConfigMap" /\ r.name = "kube-root-ca.crt")
                 /\ r.managedBy # "Helm"
                 /\ ~(r.kind = "Secret" /\ r.type # << >>
                        /\ r.type[1] = "helm.sh/release")
                 /\ ~(r.kind = "Lock" /\ r.apiVersion[1] = "pkg.crossplane.io"))
                    => r \in Fetched

C20_Witness ==
    /\ fpc = "done"
    /\ shouldExport(exportList[eidx])
    /\ \E r \in Listed :
        /\ r.kind = "Bucket"
        /\ r.owners = << ApiV1, PkgV1 >>
        /\ r.managedBy = ""
    /\ resources = << >>

\* ------------------------------------------------------ claims: the counts

\* The object files of a type directory of the exported tree.
ObjectFiles(gr) ==
    {f \in tree : f[1] = gr /\ Len(f) > 1 /\ f[Len(f)] # "_type.yaml"}

WaitPassed(gk) ==
    \E i \in 1..Len(log) : log[i].op = "wait" /\ log[i].arg = gk /\ log[i].ok

\* C22: a run resets the REST mapper at most once; a run that reports
\* success has reset it once; it is reset only after the waits of barrier
\* C (and of A and B) succeeded and before any remainder-tier type is
\* imported; a run that returned an error from the base tier or from a
\* barrier has not reset it.
C22_MapperResetOnce ==
    /\ mapperResets \in {0, 1}
    /\ pc = "done" => mapperResets = 1
    /\ mapperResets = 1 =>
          /\ \A gk \in Kinds : WaitPassed(gk)
          /\ \A k \in 1..Len(baseResources) :
                Happened(Ev("base", baseResources[k], TRUE, TRUE))
    /\ \A i \in 1..Len(log) :
          log[i].op \in {"rest", "unexpected", "unpause"} => mapperResets = 1
    /\ pc \in {"idle", "base", "waitStart", "wait", "reset"} => mapperResets = 0
    /\ (pc = "failed"
            /\ failure \in {"unarchive", "mapping", "deadline", "ctxdone"})
          => mapperResets = 0
    /\ (pc = "failed" /\ log # << >> /\ log[Len(log)].op = "base")
          => mapperResets = 0

\* C22 witness: a successful run that imported a remainder-tier type.
C22_Witness ==
    /\ pc = "done"
    /\ mapperResets = 1
    /\ Happened(Ev("rest", Managed, TRUE, TRUE))
    /\ WaitPassed("ConfigurationRevision")

\* The root of the input archive has an entry that is neither export.yaml
\* nor a directory.
StrayInArchive ==
    \E k \in 1..Len(inputArchive.root) :
        /\ ~inputArchive.root[k].isDir
        /\ inputArchive.root[k].name # "export.yaml"

\* C23: on an archive with an unknown file at its root no run reports
\* success and no run removes a pause annotation.
C23_StrayFileIsFatal ==
    StrayInArchive => (pc # "done" /\ unpausedByRun = {})

\* C26: when applying a type fails, in the base tier or in the remainder
\* tier, Import returns the error there and then: it is the last step of
\* the run, no annotation was removed, and after a failure in the base tier
\* no barrier was polled and the mapper was not reset.
C26_ApplyFailureAborts ==
    \A i \in 1..Len(log) :
        (log[i].op \in {"base", "rest"} /\ ~log[i].ok) =>
            /\ i = Len(log)
            /\ pc = "failed"
            /\ failure = "apply"
            /\ unpausedByRun = {}
            /\ \A j \in 1..Len(log) : StepOf(log[j]) <= StepOf(log[i])
            /\ log[i].op = "base" => mapperResets = 0

\* C26 witness: the managed resources, the first type of the remainder
\* tier, could not be applied and the run ended there, the claims of the
\* archive not imported.
C26_Witness ==
    /\ pc = "failed"
    /\ failure = "apply"
    /\ log[Len(log)] = Ev("rest", Managed, FALSE, TRUE)
    /\ ~cancelled
    /\ target["ns1"] = "unpaused"
    /\ target["claim1"] = "absent"

\* ------------------------------------------------- claims: the barriers

\* C24: the first poll of a wait is made when its context is made, without
\* a sleep before it, and a poll whose list call returns no instance makes
\* the wait return nil there and then.
C24_ZeroInstancesImmediate ==
    [][/\ (wpc = "start" /\ wpc' # "error") => (wpc' = "poll" /\ wclock' = 0)
       /\ (wpc = "poll" /\ wclock = 0) => (wpc' = "listed" /\ wclock' = 0)
       /\ (wpc = "listed" /\ ~resourceList.err /\ resourceList.items = << >>)
            => (wpc' = "nil" /\ wsuccess' /\ wclock' = wclock)]_vars

\* C24 witness: the target has no Function; the wait for Functions has
\* returned nil at its first poll.
C24_Witness ==
    /\ wpc = "nil"
    /\ Waits[wi].gk = "Function"
    /\ wclock = 0
    /\ resourceList = [called |-> TRUE, err |-> FALSE, items |-> << >>]

\* The instances of a list that miss at least one of the conditions of the
\* wait with status True.
UnmetInstances ==
    {k \in 1..Len(resourceList.items) :
        \E c \in Range(Waits[wi].conditions) : resourceList.items[k][c] # "True"}

\* C25: a poll counts the instances that miss at least one requested
\* condition with status True, each once; with a count of zero the wait
\* returns nil at that poll; with a greater count, or with an error of the
\* list call, the wait goes on to the next poll one period later; polls are
\* made as long as the deadline has not expired, and the wait returns its
\* timeout error only at the deadline, success still false.
C25_ReadinessPoll ==
    [][/\ (wpc = "listed" /\ ~resourceList.err) =>
            /\ Unmet(resourceList.items, Waits[wi].conditions)
                    = Cardinality(UnmetInstances)
            /\ UnmetInstances = {} => (wpc' = "nil" /\ wsuccess')
            /\ UnmetInstances # {} =>
                    (wpc' = "poll" /\ wclock' = wclock + 5 /\ ~wsuccess')
       /\ (wpc = "listed" /\ resourceList.err) =>
            (wpc' = "poll" /\ wclock' = wclock + 5 /\ ~wsuccess')
       /\ (wpc = "poll" /\ wclock < 600) => wpc' = "listed"
       /\ (wpc = "poll" /\ wpc' = "error") =>
            (wclock = 600 /\ ~wsuccess /\ wfailure' = "timeout")]_vars

\* C25 witness: the wait for Providers returned nil at its third poll, which
\* listed two providers, installed and healthy.
C25_Witness ==
    /\ wpc = "nil"
    /\ Waits[wi].gk = "Provider"
    /\ wclock = 10
    /\ Len(resourceList.items) = 2
    /\ UnmetInstances = {}

\* C29 as claimed: a barrier, its waits taken together, has returned no
\* later than 10 minutes after it started.
C29_BarrierWithinDeadline ==
    wpc \in {"nil", "error"} => spent + wclock <= 600

\* C29 (amended): every wait, one per kind, polls every 5 seconds from its
\* own start on and has returned, nil or its timeout error, no later than
\* 10 minutes after its own start.
C29_WaitWithinDeadline ==
    /\ wclock \in 0..600
    /\ wclock % 5 = 0
    /\ wpc = "listed" => wclock < 600
    /\ wpc = "nil" => wclock < 600
    /\ wfailure = "timeout" => (wpc = "error" /\ wclock = 600)

\* C29 witness: the wait for Functions, the second of barrier B, ran into
\* its deadline after the wait for Providers had taken time.
C29_Witness ==
    /\ wpc = "error"
    /\ wfailure = "timeout"
    /\ Waits[wi].gk = "Function"
    /\ wclock = 600
    /\ spent > 0

\* -------------------------------------------------- claims: CollectInfo

\* The arguments of a list that begin with --enable, in the order of the
\* list.
RECURSIVE EnableArgs(_)
EnableArgs(args) ==
    IF args = << >> THEN << >>
    ELSE (IF Head(args)[1] = "--enable" THEN << Head(args) >> ELSE << >>)
            \o EnableArgs(Tail(args))

Lowest(S) == CHOOSE k \in S : \A j \in S : k <= j

\* C30: a call of CollectInfo that returns no error reports the namespace
\* of the first Deployment named crossplane, whatever its namespace, the
\* labels app.kubernetes.io/version and app.kubernetes.io/instance of that
\* deployment as version and distribution, and as feature flags exactly the
\* arguments that begin with --enable, in order, of its first container
\* named crossplane or universal-crossplane; no argument of another
\* container or without the prefix is among them; without such a
\* deployment it reports empty info.
C30_CollectInfo ==
    (cpc = "returned" /\ ~xp.err) =>
        LET named == {k \in 1..Len(deployments) :
                        deployments[k].name = "crossplane"}
        IN  IF named = {}
            THEN xp.info = CrossplaneInfo("", "", "", << >>)
            ELSE LET d == deployments[Lowest(named)]
                     core == {k \in 1..Len(d.containers) :
                                d.containers[k].name
                                    \in {"crossplane", "universal-crossplane"}}
                 IN  /\ xp.info.namespace = d.namespace
                     /\ xp.info.version = d.labels.version
                     /\ xp.info.distribution = d.labels.instance
                     /\ xp.info.featureFlags =
                            IF core = {} THEN << >>
                            ELSE EnableArgs(d.containers[Lowest(core)].args)

\* C30 witness: after a deployment of another name, the deployment
\* crossplane with a sidecar that has --enable-b and a container crossplane
\* with --debug and --enable-a: the flags are --enable-a alone.
C30_Witness ==
    /\ cpc = "returned"
    /\ ~xp.err
    /\ Len(deployments) = 2
    /\ deployments[1].name = "coredns"
    /\ deployments[2].name = "crossplane"
    /\ deployments[2].namespace = "upbound-system"
    /\ Len(deployments[2].containers) = 2
    /\ deployments[2].containers[1].name = "sidecar"
    /\ deployments[2].containers[2] =
            [name |-> "crossplane",
             args |-> << << "--debug" >>, << "--enable", "-a" >> >>]
    /\ xp.info = CrossplaneInfo("upbound-system", "v1", "uxp",
                                << << "--enable", "-a" >> >>)

\* ---------------------------------------------- claims: pagination

\* The token the server returned to the k-th List call of the fetch.
Returned_k(k) == GetContinue(listing, PageOf(requests[k]))

\* The pages the List calls of the fetch were answered with, in order.
Served == [k \in 1..Len(requests) |-> listing[PageOf(requests[k])]]

FetchPaginates ==
    /\ requests # << >> => requests[1] = << >>
    /\ \A k \in 2..Len(requests) :
          /\ Returned_k(k - 1) # << >>
          /\ requests[k] = Returned_k(k - 1)
    /\ fpc = "listing" /\ requests # << >> =>
          /\ Returned_k(Len(requests)) # << >>
          /\ resources = Kept(Flatten(Served))
    /\ fpc = "done" =>
          /\ Returned_k(Len(requests)) = << >>
          /\ Served = listing
          /\ resources = Kept(Flatten(listing))
    /\ fpc = "failed" => resources = << >>

\* C27: the first List call of FetchResources has an empty Continue and
\* every later one the token the page before returned; resources holds the
\* items of every page read so far once (those no skip rule matches); the
\* call goes on while the returned token is not empty, returns when it is
\* empty, having read every page of the server once, and returns no
\* resources when a List call failed; and on a server that returns an
\* empty token with its last page the call terminates.
C27_FetchPaginates ==
    [] FetchPaginates /\ <> (fpc \in {"done", "failed"})

\* C27 witness: a fetch of two pages returned: the second was asked for
\* with the token of the first, and both pages were kept.
C27_Witness ==
    /\ fpc = "done"
    /\ Len(listing) = 2
    /\ requests = << << >>, << 2 >> >>
    /\ resources = << ConfigMapOf("tenant-a", "a"), ConfigMapOf("tenant-b", "a") >>
    /\ listing[1] = << ConfigMapOf("tenant-a", "a") >>

\* ------------------------------------------ claims: customResourceGVR

StorageMarked == {k \in 1..Len(crdIn.versions) : crdIn.versions[k].storage}

\* C28: customResourceGVR returns an error when no version of the type is
\* marked storage=true and when the mapping fails; when it returns none,
\* the version it asked the mapper for is the one marked storage=true and
\* the result is (group, that version, plural).
C28_StorageVersionResolved ==
    gpc = "returned" =>
        /\ StorageMarked = {} => gvrOut.err
        /\ RESTMapping(mapped, gvrOut.version) = {} => gvrOut.err
        /\ ~gvrOut.err =>
              \E k \in StorageMarked :
                 /\ gvrOut.version = crdIn.versions[k].name
                 /\ gvrOut.gvr = << crdIn.group, crdIn.versions[k].name,
                                    crdIn.plural >>

\* ------------------------------------------ claims: the unarchived state

\* C31: while Import applies resources, and when it has returned success,
\* the filesystem of the importer holds the whole input archive, unarchived
\* without error; and unarchive is called at most once on an importer. So
\* an Import that follows a PreflightChecks call whose unarchive failed
\* does not go on with an empty or partly filled filesystem.
C31_ImportOnCompleteArchive ==
    /\ unarchives <= 1
    /\ pc \in Running \cup {"done"} =>
          /\ fs.allocated
          /\ fs.complete
          /\ fs.root = inputArchive.root

\* ------------------------------------------------ claims: the two passes

\* The steps of Export that fetched and persisted a type.
ExportSteps == {k \in 1..Len(elog) : elog[k].op \in {"custom", "native"}}

\* C32: in one run of Export no type is fetched and persisted twice: not
\* twice by one pass, and not by the custom-type pass and again by the
\* native-resource pass; so no type has an entry in crCounts and one in
\* nativeCounts, also when the name of a custom type is in
\* IncludeExtraResources.
C32_OnePassPerType ==
    /\ \A i, j \in ExportSteps : elog[i].arg = elog[j].arg => i = j
    /\ \A i \in 1..Len(crCounts), j \in 1..Len(nativeCounts) :
          crCounts[i][1] # nativeCounts[j][1]

====
